---- MODULE Spec2Model ----
(***************************************************************************)
(* Export extraction of context-map (src/src/parser.rs) and the per-file   *)
(* step of generate_context_map (src/src/lib.rs).                          *)
(*                                                                         *)
(* Source text is a sequence of one-character strings; a byte offset b of  *)
(* the Rust code is the index b + 1 of the sequence.  The tree provider    *)
(* (tree_sitter::Parser with the TypeScript and TSX grammars) is a library *)
(* outside the repository and is tabulated: Parse gives the tree of a text *)
(* that is a sequence of the statements listed under "statement forms",    *)
(* and has no value on any other text.  Every text the specifications      *)
(* below hand to the tree provider is such a sequence.                     *)
(***************************************************************************)
EXTENDS Integers, Sequences, FiniteSets, TLC

VARIABLES
    source,        \* the text handed to extract_exports_for_source
    kind,          \* its SourceKind: "Ts", "Tsx" or "Vue"
    fn_kind,       \* node kind the linked grammar gives a function expression
    parser,        \* the TsExportParser: a tree_sitter::Parser for each dialect
    pc,            \* where the program stands, see each specification
    result,        \* Result<ExtractedExports, String> of the call
    parse_calls,   \* texts handed to Parser::parse so far, with the grammar
    blocks,        \* extract_exports_from_vue: the regions the locator found
    search_pos,    \* extract_vue_scripts: search_from, the loop's search position
    file_results,  \* generate_context_map: the FileResult records pushed
    summary,       \* generate_context_map: RunSummary
    files,         \* generate_context_map: the source files the loop has still to do
    relative,      \* generate_context_map: root-relative path of the file in hand
    entries,       \* the directory tree below the root, as the walker meets it
    profile,       \* markdown: RenderConfig.profile
    export,        \* markdown: the FunctionExport to render
    entry          \* markdown: what format_function_entry returned

run_vars == <<files, relative>>
walk_vars == <<entries>>
render_vars == <<profile, export, entry>>

vars == <<source, kind, fn_kind, parser, pc, result, parse_calls, blocks, search_pos,
          file_results, summary, run_vars, walk_vars, render_vars>>

(***************************************************************************)
(* Bounds                                                                  *)
(***************************************************************************)
MaxStmts == 2      \* statements in a .ts / .tsx input
MaxBlocks == 2     \* <script> blocks in a .vue input

(***************************************************************************)
(* Text                                                                    *)
(***************************************************************************)
NL == "\n"
SP == " "

\* Printable ASCII in byte order (0x20 .. 0x7E); Byte is the byte value.
\* The reader of modules takes no backquote (0x60) in a string: a text holds
\* the word at its place in its stead.
Ascii ==
    << " ", "!", "\"", "#", "$", "%", "&", "'", "(", ")", "*", "+", ",", "-",
       ".", "/", "0", "1", "2", "3", "4", "5", "6", "7", "8", "9", ":", ";",
       "<", "=", ">", "?", "@", "A", "B", "C", "D", "E", "F", "G", "H", "I",
       "J", "K", "L", "M", "N", "O", "P", "Q", "R", "S", "T", "U", "V", "W",
       "X", "Y", "Z", "[", "\\", "]", "^", "_", "<bquote>", "a", "b", "c", "d", "e",
       "f", "g", "h", "i", "j", "k", "l", "m", "n", "o", "p", "q", "r", "s",
       "t", "u", "v", "w", "x", "y", "z", "{", "|", "}", "~" >>

\* White_Space code points beyond those with an escape: U+000B, U+0085,
\* U+00A0 and U+1680; and U+FEFF, which is white space to the grammar alone
VT == ""
NEL == ""
NBSP == " "
OGHAM == " "
BOM == "﻿"

\* for a character beyond ASCII, its code point: code points order as their
\* UTF-8 bytes do
Byte(c) ==
    CASE c = "\n" -> 10
      [] c = "\t" -> 9
      [] c = "\r" -> 13
      [] c = "\f" -> 12
      [] c = VT -> 11
      [] c = NEL -> 133
      [] c = NBSP -> 160
      [] c = OGHAM -> 5760
      [] c = BOM -> 65279
      [] OTHER -> 31 + (CHOOSE i \in 1..Len(Ascii) : Ascii[i] = c)

\* str::cmp: bytewise lexicographic order; StrLess is Ordering::Less.
RECURSIVE StrLess(_, _)
StrLess(a, b) ==
    IF b = <<>> THEN FALSE
    ELSE IF a = <<>> THEN TRUE
    ELSE IF Byte(Head(a)) # Byte(Head(b)) THEN Byte(Head(a)) < Byte(Head(b))
    ELSE StrLess(Tail(a), Tail(b))

\* u8::to_ascii_lowercase / str::to_ascii_lowercase
UpperLetters == { Ascii[i] : i \in 34..59 }

LowerChar(c) ==
    IF c \in UpperLetters THEN Ascii[Byte(c) + 32 - 31] ELSE c

to_ascii_lowercase(s) == SubSeq([i \in 1..Len(s) |-> LowerChar(s[i])], 1, Len(s))

\* char::is_whitespace: the White_Space code points.  U+2000..U+200A,
\* U+2028, U+2029, U+202F, U+205F and U+3000 are White_Space as well; no
\* string of a module can hold them.
IsWhitespace(c) == c \in {" ", "\n", "\t", "\r", "\f", VT, NEL, NBSP, OGHAM}

\* str::trim_start, str::trim
RECURSIVE trim_start(_)
trim_start(s) ==
    IF s # <<>> /\ IsWhitespace(Head(s)) THEN trim_start(Tail(s)) ELSE s

RECURSIVE trim_end(_)
trim_end(s) ==
    IF s # <<>> /\ IsWhitespace(s[Len(s)])
    THEN trim_end(SubSeq(s, 1, Len(s) - 1))
    ELSE s

trim(s) == trim_end(trim_start(s))

\* str::starts_with
starts_with(s, p) == Len(s) >= Len(p) /\ SubSeq(s, 1, Len(p)) = p

\* Does needle occur in hay at index i (1-based)?
MatchAt(hay, needle, i) ==
    /\ i >= 1
    /\ i + Len(needle) - 1 <= Len(hay)
    /\ \A j \in 1..Len(needle) : hay[i + j - 1] = needle[j]

\* The element of a one-element set.  The({ e(x) : x \in {v} }) is e(v) with
\* v evaluated once, however often e uses x.
The(S) == CHOOSE x \in S : TRUE

\* The least of a set of indexes, or 0 for the empty set
FirstOf(S) == IF S = {} THEN 0 ELSE CHOOSE i \in S : \A k \in S : i <= k

\* The first index i >= `i0` at which needle occurs in hay, or 0 (hay and
\* i0 are bound as h and a, so that each is evaluated once).
FirstMatch(hay, needle, i0) ==
    The({ FirstOf({ i \in a..(Len(h) - Len(needle) + 1) : MatchAt(h, needle, i) }) :
          h \in {hay}, a \in {i0} })

\* str::find on the slice hay[from..]: the byte offset, relative to `from`,
\* of the first occurrence of needle, or -1 for None.  `from` is a byte offset.
find(hay, from, needle) ==
    The({ IF i = 0 THEN -1 ELSE i - 1 - from : i \in {FirstMatch(hay, needle, from + 1)} })

\* str::contains
contains(hay, needle) == find(hay, 0, needle) # -1

\* source[..upto].bytes().filter(|b| *b == NL).count()
CountNewlines(s, upto) == Cardinality({ i \in 1..upto : s[i] = NL })

(***************************************************************************)
(* Syntax trees (tree_sitter::Node)                                        *)
(*                                                                         *)
(* A node is [kind, named, field, s, e, kids]: its kind, whether it is a   *)
(* named node, the field it fills in its parent ("" for none), its byte    *)
(* range [s, e) and its children.  A piece is a text with the nodes        *)
(* covering it; pieces are concatenated to build a statement form.         *)
(***************************************************************************)
RECURSIVE Shift(_, _)
Shift(n, d) ==
    [ kind |-> n.kind, named |-> n.named, field |-> n.field,
      s |-> n.s + d, e |-> n.e + d,
      kids |-> [i \in 1..Len(n.kids) |-> Shift(n.kids[i], d)] ]

Sp(c) == [t |-> c, ns |-> <<>>]

Tok(k, c) ==
    [t |-> c, ns |-> << [kind |-> k, named |-> FALSE, field |-> "", s |-> 0, e |-> Len(c), kids |-> <<>>] >>]

Leaf(k, c) ==
    [t |-> c, ns |-> << [kind |-> k, named |-> TRUE, field |-> "", s |-> 0, e |-> Len(c), kids |-> <<>>] >>]

Cat(p, q) ==
    [t |-> p.t \o q.t, ns |-> p.ns \o [i \in 1..Len(q.ns) |-> Shift(q.ns[i], Len(p.t))]]

RECURSIVE CatAll(_)
CatAll(ps) == IF ps = <<>> THEN Sp(<<>>) ELSE Cat(Head(ps), CatAll(Tail(ps)))

Wrap(k, p) ==
    [t |-> p.t,
     ns |-> << [kind |-> k, named |-> TRUE, field |-> "",
                s |-> p.ns[1].s, e |-> p.ns[Len(p.ns)].e, kids |-> p.ns] >>]

Fld(f, p) == [t |-> p.t, ns |-> << [p.ns[1] EXCEPT !.field = f] >>]

\* Node::has_error: the subtree holds an ERROR node
RECURSIVE has_error(_)
has_error(n) == n.kind = "ERROR" \/ \E i \in 1..Len(n.kids) : has_error(n.kids[i])

(***************************************************************************)
(* The statement forms of the inputs: the text of each form, and with it   *)
(* the nodes the TypeScript grammar gives that text.  Subtrees the         *)
(* extractor never visits (parameter lists, bodies, clauses) are leaves.   *)
(* The texts are the inputs of the model; Parse, below, looks the trees up.*)
(***************************************************************************)
kw_export == <<"e","x","p","o","r","t">>
kw_function == <<"f","u","n","c","t","i","o","n">>
kw_const == <<"c","o","n","s","t">>
kw_let == <<"l","e","t">>
kw_var == <<"v","a","r">>
kw_default == <<"d","e","f","a","u","l","t">>
kw_interface == <<"i","n","t","e","r","f","a","c","e">>
kw_type == <<"t","y","p","e">>
kw_class == <<"c","l","a","s","s">>
kw_enum == <<"e","n","u","m">>
kw_from == <<"f","r","o","m">>

S1 == Sp(<<" ">>)
Semi == Tok(";", <<";">>)
Comma == Tok(",", <<",">>)
Eq == Tok("=", <<"=">>)
Arrow == Tok("=>", <<"=",">">>)
Ident(c) == Leaf("identifier", <<c>>)
TypeIdent(c) == Leaf("type_identifier", <<c>>)
Num(c) == Leaf("number", <<c>>)
Params(c) == Fld("parameters", Leaf("formal_parameters", c))
RetType(c) == Fld("return_type", Leaf("type_annotation", c))
Block == Leaf("statement_block", <<"{","}">>)
ModuleString == Fld("source", Leaf("string", <<"\"","m","\"">>))

\* function <name><params>[<ret> ]{}
FunctionDecl(name, params, ret) ==
    Wrap("function_declaration",
         CatAll(<< Tok("function", kw_function), S1, Fld("name", Ident(name)), Params(params) >>
                \o (IF ret = <<>> THEN <<>> ELSE << RetType(ret), S1 >>)
                \o << Fld("body", Block) >>))

\* (params)[ret] => body   and   x => body
ArrowParen(params, ret, body) ==
    Wrap("arrow_function",
         CatAll(<< Params(params) >>
                \o (IF ret = <<>> THEN <<>> ELSE << RetType(ret) >>)
                \o << S1, Arrow, S1, Fld("body", body) >>))

ArrowBare(x, body) ==
    Wrap("arrow_function",
         CatAll(<< Fld("parameter", Ident(x)), S1, Arrow, S1, Fld("body", body) >>))

\* function<params>[<ret>] {}   (fk: the grammar's kind for a function expression)
FunctionExpr(fk, params, ret) ==
    Wrap(fk, CatAll(<< Tok("function", kw_function), Params(params) >>
                    \o (IF ret = <<>> THEN <<>> ELSE << RetType(ret) >>)
                    \o << S1, Fld("body", Block) >>))

\* <name> = <value>
Declarator(name, value) ==
    Wrap("variable_declarator",
         CatAll(<< Fld("name", name), S1, Eq, S1, Fld("value", value) >>))

RECURSIVE CommaList(_)
CommaList(ds) ==
    IF Len(ds) = 1 THEN << ds[1] >>
    ELSE << ds[1], Comma, S1 >> \o CommaList(Tail(ds))

\* const|let <declarators>;
Lexical(kw, chars, ds) ==
    Wrap("lexical_declaration",
         CatAll(<< Fld("kind", Tok(kw, chars)), S1 >> \o CommaList(ds) \o << Semi >>))

\* export <declaration>
Export(decl) ==
    Wrap("export_statement", CatAll(<< Tok("export", kw_export), S1, Fld("declaration", decl) >>))

PX == <<"(","x",")">>
XT == <<"(","x",":"," ","T",")">>
XLines == <<"(","\n","x","\n",")">>
RT == <<":"," ","R">>
Unit == <<"(",")">>

\* export function b(){}
FormFnB == Export(FunctionDecl("b", Unit, <<>>))
\* export function a(x: T): R {}
FormFnA == Export(FunctionDecl("a", XT, RT))
\* export function m(<NL>x<NL>){}
FormFnM == Export(FunctionDecl("m", XLines, <<>>))
\* export const s = (x): R => x;
FormArrowRet == Export(Lexical("const", kw_const, << Declarator(Ident("s"), ArrowParen(PX, RT, Ident("x"))) >>))
\* export const i = x => x;
FormArrowBare == Export(Lexical("const", kw_const, << Declarator(Ident("i"), ArrowBare("x", Ident("x"))) >>))
\* export const f = function(x: T): R {};
FormFnExpr(fk) == Export(Lexical("const", kw_const, << Declarator(Ident("f"), FunctionExpr(fk, XT, RT)) >>))
\* export const h = () => 1, [e] = () => 2, g = 3, c = y => y;
FormMulti ==
    Export(Lexical("const", kw_const,
        << Declarator(Ident("h"), ArrowParen(Unit, <<>>, Num("1"))),
           Declarator(Leaf("array_pattern", <<"[","e","]">>), ArrowParen(Unit, <<>>, Num("2"))),
           Declarator(Ident("g"), Num("3")),
           Declarator(Ident("c"), ArrowBare("y", Ident("y"))) >>))
\* export let l = () => 1;
FormLet == Export(Lexical("let", kw_let, << Declarator(Ident("l"), ArrowParen(Unit, <<>>, Num("1"))) >>))
\* export var v = () => 1;
FormVar ==
    Export(Wrap("variable_declaration",
        CatAll(<< Tok("var", kw_var), S1,
                  Declarator(Ident("v"), ArrowParen(Unit, <<>>, Num("1"))), Semi >>)))
\* export const n: T;
FormNoInit ==
    Export(Wrap("lexical_declaration",
        CatAll(<< Fld("kind", Tok("const", kw_const)), S1,
                  Wrap("variable_declarator",
                       CatAll(<< Fld("name", Ident("n")),
                                 Fld("type", Leaf("type_annotation", <<":"," ","T">>)) >>)),
                  Semi >>)))
\* export interface J {}
FormInterface ==
    Export(Wrap("interface_declaration",
        CatAll(<< Tok("interface", kw_interface), S1, Fld("name", TypeIdent("J")), S1,
                  Fld("body", Leaf("interface_body", <<"{","}">>)) >>)))
\* export type U = T;
FormTypeAlias ==
    Export(Wrap("type_alias_declaration",
        CatAll(<< Tok("type", kw_type), S1, Fld("name", TypeIdent("U")), S1, Eq, S1,
                  Fld("value", TypeIdent("T")), Semi >>)))
\* export class K {}
FormClass ==
    Export(Wrap("class_declaration",
        CatAll(<< Tok("class", kw_class), S1, Fld("name", TypeIdent("K")), S1,
                  Fld("body", Leaf("class_body", <<"{","}">>)) >>)))
\* export enum E {}
FormEnum ==
    Export(Wrap("enum_declaration",
        CatAll(<< Tok("enum", kw_enum), S1, Fld("name", Ident("E")), S1,
                  Fld("body", Leaf("enum_body", <<"{","}">>)) >>)))
\* export default function d(){}
FormDefaultFn ==
    Wrap("export_statement",
        CatAll(<< Tok("export", kw_export), S1, Tok("default", kw_default), S1,
                  Fld("declaration", FunctionDecl("d", Unit, <<>>)) >>))
\* export { w };
ExportClause == Leaf("export_clause", <<"{"," ","w"," ","}">>)
FormClause ==
    Wrap("export_statement", CatAll(<< Tok("export", kw_export), S1, ExportClause, Semi >>))
\* export { w } from "m";
FormClauseFrom ==
    Wrap("export_statement",
        CatAll(<< Tok("export", kw_export), S1, ExportClause, S1,
                  Tok("from", kw_from), S1, ModuleString, Semi >>))
\* export type { w } from "m";
FormTypeClauseFrom ==
    Wrap("export_statement",
        CatAll(<< Tok("export", kw_export), S1, Tok("type", kw_type), S1, ExportClause, S1,
                  Tok("from", kw_from), S1, ModuleString, Semi >>))
\* export * as ns from "m";
FormNamespace ==
    Wrap("export_statement",
        CatAll(<< Tok("export", kw_export), S1,
                  Leaf("namespace_export", <<"*"," ","a","s"," ","n","s">>), S1,
                  Tok("from", kw_from), S1, ModuleString, Semi >>))
\* function z(){}        (not exported)
FormInternalFn == FunctionDecl("z", Unit, <<>>)
\* export function bad( {        (unbalanced: the tree holds an ERROR node)
FormBad ==
    Leaf("ERROR", <<"e","x","p","o","r","t"," ","f","u","n","c","t","i","o","n"," ","b","a","d","("," ","{">>)
\* export const r = () => <b/>;   (JSX: a tree under the TSX grammar only)
JsxText == <<"<","b","/",">">>
FormJsx(lang) ==
    IF lang = "tsx"
    THEN Export(Lexical("const", kw_const,
            << Declarator(Ident("r"), ArrowParen(Unit, <<>>, Leaf("jsx_self_closing_element", JsxText))) >>))
    ELSE LET p == Export(Lexical("const", kw_const,
                     << Declarator(Ident("r"), ArrowParen(Unit, <<>>, Leaf("ERROR", JsxText))) >>))
         IN  p

\* export function p():<NL>R {}   (the return type on a line of its own)
RLines == <<":","\n","R">>
FormFnP == Export(FunctionDecl("p", Unit, RLines))

(***************************************************************************)
(* The statements of the repository's tests (parser.rs mod tests and       *)
(* tests/context_map_integration.rs), with their nodes.                    *)
(***************************************************************************)
TString == <<"s","t","r","i","n","g">>
ParamsName == <<"(","n","a","m","e",":"," ","s","t","r","i","n","g",")">>
RetString == <<":"," ","s","t","r","i","n","g">>
BodyIdString == <<"{"," ","i","d",":"," ","s","t","r","i","n","g"," ","}">>

\* function <name><params>[<ret>] <body>
FunctionNamed(name, params, ret, body) ==
    Wrap("function_declaration",
         CatAll(<< Tok("function", kw_function), S1, Fld("name", Leaf("identifier", name)),
                   Params(params) >>
                \o (IF ret = <<>> THEN <<>> ELSE << RetType(ret) >>)
                \o << S1, Fld("body", Leaf("statement_block", body)) >>))

\* interface <name> <body>
InterfaceNamed(name, body) ==
    Wrap("interface_declaration",
         CatAll(<< Tok("interface", kw_interface), S1, Fld("name", Leaf("type_identifier", name)),
                   S1, Fld("body", Leaf("interface_body", body)) >>))

\* type <name> = string<end>     (end: the semicolon, or nothing)
StringAliasNamed(name, end) ==
    Wrap("type_alias_declaration",
         CatAll(<< Tok("type", kw_type), S1, Fld("name", Leaf("type_identifier", name)), S1,
                   Eq, S1, Fld("value", Leaf("predefined_type", TString)) >> \o end))

\* const <name> = <arrow>;
ConstArrow(name, arrow) ==
    Lexical("const", kw_const, << Declarator(Leaf("identifier", name), arrow) >>)

\* export function greet(name: string): string { return name }
StmtGreet ==
    Export(FunctionNamed(<<"g","r","e","e","t">>, ParamsName, RetString, <<"{"," ","r","e","t","u","r","n"," ","n","a","m","e"," ","}">>))
\* export function hello(name: string): string { return name }
StmtHello ==
    Export(FunctionNamed(<<"h","e","l","l","o">>, ParamsName, RetString, <<"{"," ","r","e","t","u","r","n"," ","n","a","m","e"," ","}">>))
\* export function fromVue(input: string): string {<NL>  return input;<NL>}
StmtFromVueInput ==
    Export(FunctionNamed(<<"f","r","o","m","V","u","e">>, <<"(","i","n","p","u","t",":"," ","s","t","r","i","n","g",")">>, RetString,
                         <<"{","\n"," "," ","r","e","t","u","r","n"," ","i","n","p","u","t",";","\n","}">>))
\* export function fromVue(id: string): string { return id }
StmtFromVueId ==
    Export(FunctionNamed(<<"f","r","o","m","V","u","e">>, <<"(","i","d",":"," ","s","t","r","i","n","g",")">>, RetString, <<"{"," ","r","e","t","u","r","n"," ","i","d"," ","}">>))
\* export function ignoredProps() {}
StmtIgnoredProps == Export(FunctionNamed(<<"i","g","n","o","r","e","d","P","r","o","p","s">>, Unit, <<>>, <<"{","}">>))
\* export function ignored() {}
StmtIgnored == Export(FunctionNamed(<<"i","g","n","o","r","e","d">>, Unit, <<>>, <<"{","}">>))
\* export const sum = (a: number, b: number): number => a + b;
StmtSum ==
    Export(ConstArrow(<<"s","u","m">>,
        ArrowParen(<<"(","a",":"," ","n","u","m","b","e","r",","," ","b",":"," ","n","u","m","b","e","r",")">>, <<":"," ","n","u","m","b","e","r">>,
                   Leaf("binary_expression", <<"a"," ","+"," ","b">>))))
\* export interface User { id: string }
StmtUser == Export(InterfaceNamed(<<"U","s","e","r">>, BodyIdString))
\* export interface VueDto { id: string }
StmtVueDto == Export(InterfaceNamed(<<"V","u","e","D","t","o">>, BodyIdString))
\* export interface SumInput { a: number; b: number }
StmtSumInput == Export(InterfaceNamed(<<"S","u","m","I","n","p","u","t">>, <<"{"," ","a",":"," ","n","u","m","b","e","r",";"," ","b",":"," ","n","u","m","b","e","r"," ","}">>))
\* interface Internal {}        (not exported)
StmtInternal ==
    Wrap("interface_declaration",
         CatAll(<< Tok("interface", kw_interface), S1,
                   Fld("name", Leaf("type_identifier", <<"I","n","t","e","r","n","a","l">>)), S1,
                   Fld("body", Leaf("interface_body", <<"{","}">>)) >>))
\* export type UserId = string;
StmtUserId == Export(StringAliasNamed(<<"U","s","e","r","I","d">>, << Semi >>))
\* export type VueId = string        (the line ends the statement)
StmtVueId == Export(StringAliasNamed(<<"V","u","e","I","d">>, <<>>))
\* export { Internal }               (the line ends the statement)
StmtExportInternal ==
    Wrap("export_statement",
        CatAll(<< Tok("export", kw_export), S1, Leaf("export_clause", <<"{"," ","I","n","t","e","r","n","a","l"," ","}">>) >>))
\* export type { ImportedType } from "./dep"      (the line ends the statement)
StmtImportedType ==
    Wrap("export_statement",
        CatAll(<< Tok("export", kw_export), S1, Tok("type", kw_type), S1,
                  Leaf("export_clause", <<"{"," ","I","m","p","o","r","t","e","d","T","y","p","e"," ","}">>), S1, Tok("from", kw_from), S1,
                  Fld("source", Leaf("string", <<"\"",".","/","d","e","p","\"">>)) >>))
\* export const Render = (name: string) => <div>{name}</div>;
StmtRenderName ==
    Export(ConstArrow(<<"R","e","n","d","e","r">>,
        ArrowParen(ParamsName, <<>>, Leaf("jsx_element", <<"<","d","i","v",">","{","n","a","m","e","}","<","/","d","i","v",">">>))))
\* export const Render = (label: string) => <span>{label}</span>;
StmtRenderLabel ==
    Export(ConstArrow(<<"R","e","n","d","e","r">>,
        ArrowParen(<<"(","l","a","b","e","l",":"," ","s","t","r","i","n","g",")">>, <<>>, Leaf("jsx_element", <<"<","s","p","a","n",">","{","l","a","b","e","l","}","<","/","s","p","a","n",">">>))))
\* export const Kept = () => <div />;
StmtKept ==
    Export(ConstArrow(<<"K","e","p","t">>,
        ArrowParen(Unit, <<>>, Leaf("jsx_self_closing_element", <<"<","d","i","v"," ","/",">">>))))

\* node kinds a function expression has: "function" up to
\* tree-sitter-javascript 0.20.1, "function_expression" since
FnKinds == {"function", "function_expression"}

\* The statement forms under grammar `lang` ("typescript" or "tsx").
FormList(lang, fk) ==
    << FormFnB, FormFnA, FormFnM, FormArrowRet, FormArrowBare, FormFnExpr(fk),
       FormMulti, FormLet, FormVar, FormNoInit, FormInterface, FormTypeAlias,
       FormClass, FormEnum, FormDefaultFn, FormClause, FormClauseFrom,
       FormTypeClauseFrom, FormNamespace, FormInternalFn, FormBad, FormJsx(lang), FormFnP >>

FormTable == [lang \in {"typescript", "tsx"} |-> [fk \in FnKinds |-> FormList(lang, fk)]]

Forms(lang, fk) == FormTable[lang][fk]

\* The statements of the tests under grammar `lang`; the TypeScript grammar
\* has no JSX, and the JSX statements of the tests are given to the TSX
\* grammar alone.
TestStatements(lang) ==
    << StmtGreet, StmtHello, StmtFromVueInput, StmtFromVueId, StmtIgnoredProps, StmtIgnored,
       StmtSum, StmtUser, StmtVueDto, StmtSumInput, StmtInternal, StmtUserId, StmtVueId,
       StmtExportInternal, StmtImportedType >>
    \o (IF lang = "tsx" THEN << StmtRenderName, StmtRenderLabel, StmtKept >> ELSE <<>>)

\* Statements written without the semicolon that ends them: the end of the
\* line ends them (the scanner's automatic semicolon).
Unterminated == { StmtVueId.t, StmtExportInternal.t, StmtImportedType.t }

(***************************************************************************)
(* The tree provider: tree_sitter::Parser::parse with the language of the  *)
(* parser.  The library and its grammars are no part of the repository, so *)
(* its trees are tabulated: the catalogue holds the statements above with  *)
(* the nodes the grammar gives each of them, and Parse reads a text as     *)
(* statements of the catalogue with white space between them.  A text that *)
(* is no such sequence has no tree here: Parse has no value on it.         *)
(***************************************************************************)
CatalogueTable ==
    [lang \in {"typescript", "tsx"} |->
        [fk \in FnKinds |-> FormList(lang, fk) \o TestStatements(lang)]]

Catalogue(lang, fk) == CatalogueTable[lang][fk]

\* white space between statements, and white space that is no line break
Blank == {SP, NL, "\t", "\r"}
BlankInLine == {SP, "\t", "\r"}

\* the first index from i on whose character is not in S (beyond the text
\* if there is none)
RECURSIVE RunEnd(_, _, _)
RunEnd(t, i, S) == IF i <= Len(t) /\ t[i] \in S THEN RunEnd(t, i + 1, S) ELSE i

\* the line or the text ends at index i, white space apart
LineEndsAt(t, i) == RunEnd(t, i, BlankInLine) > Len(t) \/ t[RunEnd(t, i, BlankInLine)] = NL

\* statement `st` of the catalogue stands at index i of the text
StandsAt(st, t, i) ==
    /\ MatchAt(t, st.t, i)
    /\ st.t \in Unterminated => LineEndsAt(t, i + Len(st.t))

\* the nodes of a statement that begins at index i
NodesAt(st, i) == [n \in 1..Len(st.ns) |-> Shift(st.ns[n], i - 1)]

\* the statements of the program from index i on, behind the nodes `acc`
RECURSIVE ParseFrom(_, _, _, _)
ParseNext(cat, t, j, acc, st) == ParseFrom(cat, t, j + Len(st.t), acc \o NodesAt(st, j))

ParseAt(cat, t, j, acc) ==
    IF j > Len(t) THEN acc
    ELSE ParseNext(cat, t, j, acc, cat[CHOOSE k \in 1..Len(cat) : StandsAt(cat[k], t, j)])

ParseFrom(cat, t, i, acc) == ParseAt(cat, t, RunEnd(t, i, Blank), acc)

\* The root node ("program") of the tree for `text` under grammar `lang`.
Parse(lang, fk, text) ==
    [kind |-> "program", named |-> TRUE, field |-> "", s |-> 0, e |-> Len(text),
     kids |-> ParseFrom(Catalogue(lang, fk), text, 1, <<>>)]

(***************************************************************************)
(* Node accessors used by parser.rs.  An Option is a sequence of length    *)
(* 0 (None) or 1 (Some).                                                   *)
(***************************************************************************)
child_by_field_name(n, f) ==
    LET hits == { i \in 1..Len(n.kids) : n.kids[i].field = f }
    IN  IF hits = {} THEN <<>>
        ELSE << n.kids[CHOOSE i \in hits : \A j \in hits : i <= j] >>

IsNamed(n) == n.named
named_children(n) == SelectSeq(n.kids, IsNamed)

\* node.start_position().row: newlines before the node's first byte
start_row(n, src) == CountNewlines(src, n.s)

\* (variant) the node's text with every newline made a space
text_on_one_line(n, src) ==
    SubSeq([i \in 1..Len(src) |-> IF src[i] = NL THEN SP ELSE src[i]], n.s + 1, n.e)

\* parser.rs text_for
text_for(n, src) == SubSeq(src, n.s + 1, n.e)

(***************************************************************************)
(* Export Extractor (parser.rs)                                            *)
(***************************************************************************)
\* a.line.cmp(&b.line).then(a.name.cmp(&b.name)) == Ordering::Less
LineNameLess(a, b) ==
    a.line < b.line \/ (a.line = b.line /\ StrLess(a.name, b.name))

\* Vec::sort_by with the comparator above (stable)
RECURSIVE Insert(_, _)
Insert(sorted, x) ==
    IF sorted = <<>> THEN << x >>
    ELSE IF LineNameLess(x, sorted[Len(sorted)])
         THEN Append(Insert(SubSeq(sorted, 1, Len(sorted) - 1), x), sorted[Len(sorted)])
         ELSE Append(sorted, x)

RECURSIVE InsertAll(_, _)
InsertAll(acc, xs) ==
    IF xs = <<>> THEN acc ELSE InsertAll(Insert(acc, Head(xs)), Tail(xs))

\* (variant) no sort
NoSort(xs) == xs

sort_by_line_name(xs) == InsertAll(<<>>, xs)

IsExportedChild(c) == c.kind # "export_clause" /\ c.kind # "namespace_export"

first_named_child(node) ==
    LET cs == SelectSeq(named_children(node), IsExportedChild)
    IN  IF cs = <<>> THEN <<>> ELSE << cs[1] >>

\* (variant) no separating space
SignatureNoSpace(name, parameters, return_type) == name \o parameters \o return_type

\* format!("{name}{parameters}") / format!("{name}{parameters} {return_type}")
Signature(name, parameters, return_type) ==
    IF return_type = <<>> THEN name \o parameters
    ELSE name \o parameters \o <<" ">> \o return_type

FieldText(node, f, src, default) ==
    LET c == child_by_field_name(node, f)
    IN  IF c = <<>> THEN default ELSE text_for(c[1], src)

function_declaration_export(node, src) ==
    LET name_node == child_by_field_name(node, "name")
    IN  IF name_node = <<>> THEN <<>>
        ELSE LET name == text_for(name_node[1], src)
                 parameters == FieldText(node, "parameters", src, <<"(",")">>)
                 return_type == trim(FieldText(node, "return_type", src, <<>>))
             IN  << [name |-> name,
                     signature |-> Signature(name, parameters, return_type),
                     line |-> start_row(name_node[1], src) + 1] >>

type_like_export(node, src) ==
    LET name_node == child_by_field_name(node, "name")
    IN  IF name_node = <<>> THEN <<>>
        ELSE << [name |-> text_for(name_node[1], src),
                 line |-> start_row(name_node[1], src) + 1] >>

is_const_lexical(node, src) ==
    /\ node.kids # <<>>
    /\ trim(text_for(node.kids[1], src)) = kw_const

\* (variant) the parameter text as written
NoWrap(raw_params) == raw_params

\* if raw_params.trim_start().starts_with('(') { raw_params } else { format!("({raw_params})") }
WrapParams(raw_params) ==
    IF starts_with(trim_start(raw_params), <<"(">>) THEN raw_params
    ELSE <<"(">> \o raw_params \o <<")">>

build_from_arrow(name, name_node, node, src) ==
    LET ps == child_by_field_name(node, "parameters")
        p1 == child_by_field_name(node, "parameter")
        raw_params == IF ps # <<>> THEN text_for(ps[1], src)
                      ELSE IF p1 # <<>> THEN text_for(p1[1], src)
                      ELSE <<"(",")">>
        parameters == WrapParams(raw_params)
        return_type == trim(FieldText(node, "return_type", src, <<>>))
    IN  [name |-> name,
         signature |-> Signature(name, parameters, return_type),
         line |-> start_row(name_node, src) + 1]

build_from_function_expr(name, name_node, node, src) ==
    LET parameters == FieldText(node, "parameters", src, <<"(",")">>)
        return_type == trim(FieldText(node, "return_type", src, <<>>))
    IN  [name |-> name,
         signature |-> Signature(name, parameters, return_type),
         line |-> start_row(name_node, src) + 1]

\* One declarator of const_callable_exports' loop: the callables it pushes.
DeclaratorExports(declarator, src) ==
    LET name_node == child_by_field_name(declarator, "name")
        value_node == child_by_field_name(declarator, "value")
    IN  IF name_node = <<>> THEN <<>>
        ELSE IF name_node[1].kind # "identifier" THEN <<>>
        ELSE IF value_node = <<>> THEN <<>>
        ELSE LET name == text_for(name_node[1], src)
             IN  IF value_node[1].kind = "arrow_function"
                 THEN << build_from_arrow(name, name_node[1], value_node[1], src) >>
                 ELSE IF value_node[1].kind = "function"
                 THEN << build_from_function_expr(name, name_node[1], value_node[1], src) >>
                 ELSE <<>>

IsDeclarator(c) == c.kind = "variable_declarator"

RECURSIVE ConcatExports(_, _)
ConcatExports(ds, src) ==
    IF ds = <<>> THEN <<>>
    ELSE DeclaratorExports(Head(ds), src) \o ConcatExports(Tail(ds), src)

const_callable_exports(node, src) ==
    ConcatExports(SelectSeq(named_children(node), IsDeclarator), src)

\* (variant) a top-level declaration counts as exported without a wrapper
AnyTopLevel(child) ==
    IF child.kind # "export_statement" THEN << child >> ELSE first_named_child(child)

\* The two `continue`s at the head of extract_from_tree's loop: the node
\* the iteration goes on with, if any.
ExportedChild(child) ==
    IF child.kind # "export_statement" THEN <<>> ELSE first_named_child(child)

\* One iteration of extract_from_tree's loop over the root's children:
\* what `child` adds to exports.functions and exports.types.
ChildExports(child, src) ==
    LET none == [functions |-> <<>>, types |-> <<>>]
        exported == ExportedChild(child)
    IN  IF exported = <<>> THEN none
        ELSE IF exported[1].kind = "function_declaration"
             THEN [functions |-> function_declaration_export(exported[1], src), types |-> <<>>]
        ELSE IF exported[1].kind = "lexical_declaration"
             THEN IF is_const_lexical(exported[1], src)
                  THEN [functions |-> const_callable_exports(exported[1], src), types |-> <<>>]
                  ELSE none
        ELSE IF exported[1].kind \in {"interface_declaration", "type_alias_declaration"}
             THEN [functions |-> <<>>, types |-> type_like_export(exported[1], src)]
        ELSE none

RECURSIVE CollectExports(_, _)
CollectExports(children, src) ==
    IF children = <<>> THEN [functions |-> <<>>, types |-> <<>>]
    ELSE LET h == ChildExports(Head(children), src)
             t == CollectExports(Tail(children), src)
         IN  [functions |-> h.functions \o t.functions, types |-> h.types \o t.types]

extract_from_tree(root, src) ==
    LET exports == CollectExports(root.kids, src)
    IN  [functions |-> sort_by_line_name(exports.functions),
         types |-> sort_by_line_name(exports.types)]

(***************************************************************************)
(* Results: Ok(ExtractedExports) and Err(String)                           *)
(***************************************************************************)
Ok(exports) == [ok |-> TRUE, functions |-> exports.functions, types |-> exports.types, err |-> ""]
Err(msg) == [ok |-> FALSE, functions |-> <<>>, types |-> <<>>, err |-> msg]

\* (variant) no has_error test
ParseIgnoringErrors(p, fk, src) == Ok(extract_from_tree(Parse(p.language, fk, src), src))

\* parse_with on the tree_sitter::Parser p.  Parser::parse returns None only
\* without a language, with a timeout or on cancellation, none of which this
\* program sets up.
parse_with(p, fk, src) ==
    LET root == Parse(p.language, fk, src)
    IN  IF has_error(root) THEN Err("syntax parse error")
        ELSE Ok(extract_from_tree(root, src))

(***************************************************************************)
(* Script Region Locator (parser.rs extract_vue_scripts)                   *)
(***************************************************************************)
ScriptOpen == <<"<","s","c","r","i","p","t">>
ScriptClose == <<"<","/","s","c","r","i","p","t",">">>
SrcAttr == <<"s","r","c","=">>
LangTsxDouble == <<"l","a","n","g","=","\"","t","s","x","\"">>
LangTsxSingle == <<"l","a","n","g","=","'","t","s","x","'">>
LangTsxBare == <<"l","a","n","g","=","t","s","x">>

\* the dialect of a block from its (lower-cased) attribute text
BlockKind(attrs) ==
    IF \/ contains(attrs, LangTsxDouble)
       \/ contains(attrs, LangTsxSingle)
       \/ contains(attrs, LangTsxBare)
    THEN "Tsx" ELSE "Ts"

\* The while loop of extract_vue_scripts.  One iteration from search
\* position `search_from` with `out` collected so far is a chain of
\* operators, one per step, each taking what the steps before it have bound;
\* it gives the loop's next state: stop (break, or the `while let` failing)
\* or go on with the new search_from and out.
\* (variant) a stop that discards the regions collected so far
StopDropping(search_from, out) == [stop |-> TRUE, search_from |-> search_from, out |-> <<>>]

Stop(search_from, out) == [stop |-> TRUE, search_from |-> search_from, out |-> out]

\* (variant) the search goes on at the closing tag, not past it
GoOnAtClose(search_from, out) ==
    [stop |-> FALSE, search_from |-> search_from - Len(ScriptClose), out |-> out]

GoOn(search_from, out) == [stop |-> FALSE, search_from |-> search_from, out |-> out]

\* let attrs = &lower[tag_start + "<script".len()..tag_end]
Attrs(lower, tag_start, tag_end) == SubSeq(lower, tag_start + Len(ScriptOpen) + 1, tag_end)

\* content_start = tag_end + 1, content_end = close_start
ScriptBlock(src, attrs, content_start, content_end) ==
    [content |-> SubSeq(src, content_start + 1, content_end),
     line_offset |-> CountNewlines(src, content_start),
     kind |-> BlockKind(attrs)]

\* search_from = close_start + "</script>".len(); then `continue` for a
\* src= tag, out.push(..) otherwise
WithClose(src, lower, out, tag_start, tag_end, close_start) ==
    The({ GoOn(close_start + Len(ScriptClose),
               IF contains(attrs, SrcAttr) THEN out
               ELSE Append(out, ScriptBlock(src, attrs, tag_end + 1, close_start))) :
          attrs \in {Attrs(lower, tag_start, tag_end)} })

\* let Some(close_rel) = lower[tag_end + 1..].find("</script>") else { break }
FindClose(src, lower, search_from, out, tag_start, tag_end, close_rel) ==
    IF close_rel = -1 THEN Stop(search_from, out)
    ELSE WithClose(src, lower, out, tag_start, tag_end, tag_end + 1 + close_rel)

\* let Some(tag_end_rel) = lower[tag_start..].find('>') else { break }
FindTagEnd(src, lower, search_from, out, tag_start, tag_end_rel) ==
    IF tag_end_rel = -1 THEN Stop(search_from, out)
    ELSE The({ FindClose(src, lower, search_from, out, tag_start, tag_start + tag_end_rel,
                         close_rel) :
               close_rel \in {find(lower, tag_start + tag_end_rel + 1, ScriptClose)} })

\* while let Some(tag_rel) = lower[search_from..].find("<script")
FindTag(src, lower, search_from, out, tag_rel) ==
    IF tag_rel = -1 THEN Stop(search_from, out)
    ELSE The({ FindTagEnd(src, lower, search_from, out, search_from + tag_rel, tag_end_rel) :
               tag_end_rel \in {find(lower, search_from + tag_rel, <<">">>)} })

\* one iteration of the loop
ScanIteration(src, lower, search_from, out) ==
    The({ FindTag(src, lower, search_from, out, tag_rel) :
          tag_rel \in {find(lower, search_from, ScriptOpen)} })

\* the loop, run to its end
RECURSIVE ScanScripts(_, _, _, _)
ScanLoop(src, lower, st) ==
    IF st.stop THEN st.out ELSE ScanScripts(src, lower, st.search_from, st.out)

ScanScripts(src, lower, search_from, out) ==
    ScanLoop(src, lower, ScanIteration(src, lower, search_from, out))

extract_vue_scripts(src) == ScanScripts(src, to_ascii_lowercase(src), 0, <<>>)

(***************************************************************************)
(* Dialect Dispatcher (TsExportParser)                                     *)
(*                                                                         *)
(* A TsExportParser p is [ts_parser, tsx_parser], each a Parser [language]. *)
(* Each operator gives [res, calls, blocks]: the Result                    *)
(* returned, the texts handed to the tree provider in order, and the       *)
(* regions located.  Parser::parse borrows the parser mutably; it is called*)
(* with no old tree, and set_language is called in new alone, so a parser  *)
(* is behind a call what it was before it.                                 *)
(***************************************************************************)
\* TsExportParser::new: a parser for each dialect, its language set once
new == [ts_parser |-> [language |-> "typescript"], tsx_parser |-> [language |-> "tsx"]]

ParseCall(lang, text) == [grammar |-> lang, text |-> text]

extract_exports_from_ts(p, fk, src) ==
    [res |-> parse_with(p.ts_parser, fk, src),
     calls |-> << ParseCall(p.ts_parser.language, src) >>,
     blocks |-> <<>>]

extract_exports_from_tsx(p, fk, src) ==
    [res |-> parse_with(p.tsx_parser, fk, src),
     calls |-> << ParseCall(p.tsx_parser.language, src) >>,
     blocks |-> <<>>]

\* (variant) region-relative lines
NoOffset(xs, offset) == xs

\* export.line += block.line_offset, for every export of one region
AddOffset(xs, offset) == [i \in 1..Len(xs) |-> [xs[i] EXCEPT !.line = @ + offset]]

\* match block.kind { SourceKind::Tsx => extract_exports_from_tsx, _ => extract_exports_from_ts }
ExtractBlock(p, fk, block) ==
    IF block.kind = "Tsx" THEN extract_exports_from_tsx(p, fk, block.content)
    ELSE extract_exports_from_ts(p, fk, block.content)

\* all.functions.extend(..) and all.types.extend(..) with the lines moved
Extend(all, extracted, line_offset) ==
    [functions |-> all.functions \o AddOffset(extracted.functions, line_offset),
     types |-> all.types \o AddOffset(extracted.types, line_offset)]

\* The sorts and Ok(all) behind the loop
Finish(all, calls) ==
    [res |-> Ok([functions |-> sort_by_line_name(all.functions),
                 types |-> sort_by_line_name(all.types)]),
     calls |-> calls]

\* The for loop of extract_exports_from_vue over the blocks still to do,
\* `rest`, with `all` merged and `calls` made so far.  VueStep is one
\* iteration with `one` the outcome for the block; `?` returns its Err.
RECURSIVE VueLoop(_, _, _, _, _)
RECURSIVE VueStep(_, _, _, _, _, _)
VueStep(p, fk, rest, all, calls, one) ==
    IF ~one.res.ok
    THEN [res |-> Err(one.res.err), calls |-> calls \o one.calls]
    ELSE VueLoop(p, fk, Tail(rest), Extend(all, one.res, Head(rest).line_offset),
                 calls \o one.calls)

VueLoop(p, fk, rest, all, calls) ==
    IF rest = <<>> THEN Finish(all, calls)
    ELSE VueStep(p, fk, rest, all, calls, ExtractBlock(p, fk, Head(rest)))

\* (variant) every region is parsed before the first failure is returned
RECURSIVE VueLoopLate(_, _, _, _, _, _)
RECURSIVE VueStepLate(_, _, _, _, _, _, _)
VueStepLate(p, fk, rest, all, calls, failed, one) ==
    IF ~one.res.ok
    THEN VueLoopLate(p, fk, Tail(rest), all, calls \o one.calls, Append(failed, one.res.err))
    ELSE VueLoopLate(p, fk, Tail(rest), Extend(all, one.res, Head(rest).line_offset),
                     calls \o one.calls, failed)

VueLoopLate(p, fk, rest, all, calls, failed) ==
    IF rest = <<>>
    THEN IF failed # <<>> THEN [res |-> Err(failed[1]), calls |-> calls]
         ELSE Finish(all, calls)
    ELSE VueStepLate(p, fk, rest, all, calls, failed, ExtractBlock(p, fk, Head(rest)))

WithBlocks(r, bs) == [res |-> r.res, calls |-> r.calls, blocks |-> bs]

EmptyExports == [functions |-> <<>>, types |-> <<>>]

\* (variant) the loop that parses every region
VueRunLate(p, fk, bs) == WithBlocks(VueLoopLate(p, fk, bs, EmptyExports, <<>>, <<>>), bs)

\* extract_exports_from_vue behind `let blocks = ...`
VueRun(p, fk, bs) == WithBlocks(VueLoop(p, fk, bs, EmptyExports, <<>>), bs)

extract_exports_from_vue(p, fk, src) == VueRun(p, fk, extract_vue_scripts(src))

(***************************************************************************)
(* Inputs                                                                  *)
(***************************************************************************)
\* White space written after each statement form (same order as Forms): a
\* space keeps the next statement on the same line.
Trailer ==
    << SP, NL, NL, NL, SP, NL,
       NL, NL, NL, NL, NL, SP,
       SP, NL, NL, NL, NL,
       NL, NL, SP, NL, NL, NL >>

FormText == [k \in 1..Len(Trailer) |-> Forms("tsx", "function")[k].t \o << Trailer[k] >>]

RECURSIVE TextOf(_)
TextOf(ks) == IF ks = <<>> THEN <<>> ELSE FormText[Head(ks)] \o TextOf(Tail(ks))

StmtSeqs == UNION { [1..n -> 1..Len(Trailer)] : n \in 0..MaxStmts }

TsTexts == { TextOf(ks) : ks \in StmtSeqs }

\* .vue inputs: an optional template, then up to MaxBlocks script blocks,
\* each an opening tag, statements and a closing tag; the last opening tag
\* is self-closing and stands alone.
OpenTags ==
    << <<"<","s","c","r","i","p","t",">">>,
       <<"<","s","c","r","i","p","t"," ","l","a","n","g","=","\"","t","s","x","\"",">","\n">>,
       <<"<","s","c","r","i","p","t"," ","s","r","c","=","\"","x","\"",">">>,
       <<"<","s","c","r","i","p","t"," ","s","r","c","=","\"","x","\"","/",">">> >>

SelfClosing == Len(OpenTags)

Template == <<"<","t","e","m","p","l","a","t","e","/",">","\n">>

\* statements of a block, as indices into Forms
BlockStmts == << <<1, 12>>, <<2, 11>>, <<21>>, <<22>> >>

BlockChoices == [open : 1..Len(OpenTags), stmts : 1..Len(BlockStmts)]

BlockText(b) ==
    OpenTags[b.open]
    \o (IF b.open = SelfClosing THEN <<>> ELSE TextOf(BlockStmts[b.stmts]) \o ScriptClose)

RECURSIVE VueTextOf(_)
VueTextOf(bs) == IF bs = <<>> THEN <<>> ELSE BlockText(Head(bs)) \o VueTextOf(Tail(bs))

VueTexts ==
    { pre \o VueTextOf(bs) : pre \in {<<>>, Template},
                             bs \in UNION { [1..n -> BlockChoices] : n \in 0..MaxBlocks } }

(***************************************************************************)
(* State machine: one call of extract_exports_for_source on a parser       *)
(* built by TsExportParser::new, then generate_context_map's handling of   *)
(* its result.                                                             *)
(***************************************************************************)
EmptySummary == [scanned |-> 0, parsed |-> 0, parse_failed |-> 0, exported_functions |-> 0]

\* RunSummary { scanned: files.len(), ..RunSummary::default() }
Scanned(n) == [EmptySummary EXCEPT !.scanned = n]

\* a path for a file of each kind
PathOfKind(k) ==
    CASE k = "Ts" -> <<"f",".","t","s">>
      [] k = "Tsx" -> <<"f",".","t","s","x">>
      [] k = "Vue" -> <<"f",".","v","u","e">>

NoExport == [name |-> <<>>, signature |-> <<>>, file_path |-> <<>>, line |-> 1]

\* the walker and the renderer at rest
Idle ==
    /\ entries = {}
    /\ profile = "Balanced"
    /\ export = NoExport
    /\ entry = <<>>

Init ==
    /\ kind \in {"Ts", "Tsx", "Vue"}
    /\ source \in (IF kind = "Vue" THEN VueTexts ELSE TsTexts)
    /\ fn_kind \in FnKinds
    /\ parser = new
    /\ pc = "call"
    /\ result = Err("")
    /\ parse_calls = <<>>
    /\ blocks = <<>>
    /\ search_pos = 0
    /\ file_results = <<>>
    /\ summary = Scanned(1)
    /\ files = <<>>
    /\ relative = PathOfKind(kind)
    /\ Idle

\* (variant) one Parser serves both dialects, its language set for each
\* parse: a call leaves the parsers with the language of its last parse
ReturnLeavingLanguage(r) ==
    /\ result' = r.res
    /\ parse_calls' = parse_calls \o r.calls
    /\ blocks' = r.blocks
    /\ pc' = "returned"
    /\ parser' = IF r.calls = <<>> THEN parser
                 ELSE [ts_parser |-> [language |-> r.calls[Len(r.calls)].grammar],
                       tsx_parser |-> [language |-> r.calls[Len(r.calls)].grammar]]
    /\ UNCHANGED <<source, kind, fn_kind, search_pos, file_results, summary,
                   run_vars, walk_vars, render_vars>>

\* the call returns r; the parsers are what they were before the call
Return(r) ==
    /\ result' = r.res
    /\ parse_calls' = parse_calls \o r.calls
    /\ blocks' = r.blocks
    /\ pc' = "returned"
    /\ UNCHANGED <<source, kind, fn_kind, parser, search_pos, file_results, summary,
                   run_vars, walk_vars, render_vars>>

\* extract_exports_for_source, SourceKind::Ts
ExtractTs ==
    /\ pc = "call"
    /\ kind = "Ts"
    /\ Return(extract_exports_from_ts(parser, fn_kind, source))

\* extract_exports_for_source, SourceKind::Tsx
ExtractTsx ==
    /\ pc = "call"
    /\ kind = "Tsx"
    /\ Return(extract_exports_from_tsx(parser, fn_kind, source))

\* extract_exports_for_source, SourceKind::Vue
ExtractVue ==
    /\ pc = "call"
    /\ kind = "Vue"
    /\ Return(extract_exports_from_vue(parser, fn_kind, source))

\* (variant) a failed call counted as parsed
RecordFileResultAsParsed ==
    /\ pc = "returned"
    /\ summary' = [summary EXCEPT !.parsed = @ + 1,
                                  !.exported_functions = @ + Len(result.functions)]
    /\ file_results' = Append(file_results,
           [file_path |-> relative, exports |-> <<>>,
            parse_error |-> IF result.ok THEN <<>> ELSE << result.err >>])
    /\ pc' = "recorded"
    /\ UNCHANGED <<source, kind, fn_kind, parser, result, parse_calls, blocks, search_pos,
                   run_vars, walk_vars, render_vars>>

\* extracted.into_iter().map(|entry| FunctionExport { .. file_path: relative.clone() .. })
FunctionExports(fs, path) ==
    SubSeq([i \in 1..Len(fs) |->
               [name |-> fs[i].name, signature |-> fs[i].signature,
                file_path |-> path, line |-> fs[i].line]], 1, Len(fs))

\* generate_context_map: the match on the call's result (lib.rs 90-117);
\* extracted.len() and extracted.into_iter() are read as the functions.
RecordFileResult ==
    /\ pc = "returned"
    /\ IF result.ok
       THEN /\ summary' = [summary EXCEPT !.parsed = @ + 1,
                                          !.exported_functions = @ + Len(result.functions)]
            /\ file_results' = Append(file_results,
                   [file_path |-> relative,
                    exports |-> FunctionExports(result.functions, relative),
                    parse_error |-> <<>>])
       ELSE /\ summary' = [summary EXCEPT !.parse_failed = @ + 1]
            /\ file_results' = Append(file_results,
                   [file_path |-> relative, exports |-> <<>>,
                    parse_error |-> << result.err >>])
    /\ pc' = "recorded"
    /\ UNCHANGED <<source, kind, fn_kind, parser, result, parse_calls, blocks, search_pos,
                   run_vars, walk_vars, render_vars>>

Next == ExtractTs \/ ExtractTsx \/ ExtractVue \/ RecordFileResult

Spec == Init /\ [][Next]_vars

\* extract_exports_for_source: the match on kind
extract_exports_for_source(p, fk, src, k) ==
    CASE k = "Ts" -> extract_exports_from_ts(p, fk, src)
      [] k = "Tsx" -> extract_exports_from_tsx(p, fk, src)
      [] k = "Vue" -> extract_exports_from_vue(p, fk, src)

(***************************************************************************)
(* generate_context_map over several files (lib.rs 65-140): the loop over  *)
(* the files collect_source_files returned, one parser for all of them.    *)
(*   pc: "files" -> ("call" -> "returned" -> "recorded")* -> "done"        *)
(***************************************************************************)
MaxFiles == 2      \* files of a run

\* fs::read_to_string
ReadText(text) == [ok |-> TRUE, text |-> text, err |-> ""]
ReadFailure(msg) == [ok |-> FALSE, text |-> <<>>, err |-> msg]

InvalidUtf8 == "stream did not contain valid UTF-8"

\* The files a run may meet, in path order: a.ts and b.ts hold the same
\* text, c.tsx and j.ts the same JSX text, e.ts does not parse, u.ts cannot
\* be read, v.vue has a plain and a lang="tsx" region; the name of a\c.ts
\* holds a backslash.
RunFiles ==
    << [path |-> <<"a",".","t","s">>, kind |-> "Ts", read |-> ReadText(TextOf(<<2>>))],
       [path |-> <<"a","\\","c",".","t","s">>, kind |-> "Ts", read |-> ReadText(TextOf(<<1>>))],
       [path |-> <<"b",".","t","s">>, kind |-> "Ts", read |-> ReadText(TextOf(<<2>>))],
       [path |-> <<"c",".","t","s","x">>, kind |-> "Tsx", read |-> ReadText(TextOf(<<22>>))],
       [path |-> <<"e",".","t","s">>, kind |-> "Ts", read |-> ReadText(TextOf(<<21>>))],
       [path |-> <<"j",".","t","s">>, kind |-> "Ts", read |-> ReadText(TextOf(<<22>>))],
       [path |-> <<"u",".","t","s">>, kind |-> "Ts", read |-> ReadFailure(InvalidUtf8)],
       [path |-> <<"v",".","v","u","e">>, kind |-> "Vue",
        read |-> ReadText(Template \o VueTextOf(<< [open |-> 1, stmts |-> 1],
                                                  [open |-> 2, stmts |-> 4] >>))] >>

\* what collect_source_files can return: up to MaxFiles files, sorted by path
FileLists ==
    { [i \in 1..Len(ix) |-> RunFiles[ix[i]]] :
        ix \in { ix \in UNION { [1..n -> 1..Len(RunFiles)] : n \in 0..MaxFiles } :
                    \A i \in 1..(Len(ix) - 1) : ix[i] < ix[i + 1] } }

InitRun ==
    /\ fn_kind \in FnKinds
    /\ parser = new
    /\ files \in FileLists
    /\ summary = Scanned(Len(files))
    /\ file_results = <<>>
    /\ pc = "files"
    /\ source = <<>>
    /\ kind = "Ts"
    /\ relative = <<>>
    /\ result = Err("")
    /\ parse_calls = <<>>
    /\ blocks = <<>>
    /\ search_pos = 0
    /\ Idle

\* lib.rs normalize_path: path.to_string_lossy().replace('\\', "/")
normalize_path(path) ==
    SubSeq([i \in 1..Len(path) |-> IF path[i] = "\\" THEN "/" ELSE path[i]], 1, Len(path))

\* the loop takes the next file; strip_prefix has left the path below the root
TakeFile ==
    /\ pc \in {"files", "recorded"}
    /\ files # <<>>
    /\ relative' = normalize_path(Head(files).path)
    /\ files' = Tail(files)

\* fs::read_to_string gave Ok(source): the parser is called
ReadSource ==
    /\ TakeFile
    /\ Head(files).read.ok
    /\ source' = Head(files).read.text
    /\ kind' = Head(files).kind
    /\ pc' = "call"
    /\ UNCHANGED <<fn_kind, parser, result, parse_calls, blocks, search_pos, file_results, summary,
                   walk_vars, render_vars>>

\* fs::read_to_string gave Err(err)
ReadFailed ==
    /\ TakeFile
    /\ ~Head(files).read.ok
    /\ summary' = [summary EXCEPT !.parse_failed = @ + 1]
    /\ file_results' = Append(file_results,
           [file_path |-> relative', exports |-> <<>>,
            parse_error |-> << Head(files).read.err >>])
    /\ pc' = "recorded"
    /\ UNCHANGED <<source, kind, fn_kind, parser, result, parse_calls, blocks, search_pos,
                   walk_vars, render_vars>>

\* a.file_path.cmp(&b.file_path) == Ordering::Less
PathLess(a, b) == StrLess(a.file_path, b.file_path)

RECURSIVE InsertByPath(_, _)
InsertByPath(sorted, x) ==
    IF sorted = <<>> THEN << x >>
    ELSE IF PathLess(x, sorted[Len(sorted)])
         THEN Append(InsertByPath(SubSeq(sorted, 1, Len(sorted) - 1), x), sorted[Len(sorted)])
         ELSE Append(sorted, x)

RECURSIVE sort_by_file_path(_, _)
sort_by_file_path(acc, xs) ==
    IF xs = <<>> THEN acc ELSE sort_by_file_path(InsertByPath(acc, Head(xs)), Tail(xs))

\* file.exports.sort_by(line, then name), for every file
SortExports(frs) ==
    SubSeq([i \in 1..Len(frs) |-> [frs[i] EXCEPT !.exports = sort_by_line_name(@)]],
           1, Len(frs))

\* behind the loop: the two sorts, then Ok(RunOutput { .. })
Finished ==
    /\ pc \in {"files", "recorded"}
    /\ files = <<>>
    /\ file_results' = SortExports(sort_by_file_path(<<>>, file_results))
    /\ pc' = "done"
    /\ UNCHANGED <<source, kind, fn_kind, parser, result, parse_calls, blocks, search_pos, summary,
                   files, relative, walk_vars, render_vars>>

NextRun ==
    \/ ReadSource \/ ReadFailed
    \/ ExtractTs \/ ExtractTsx \/ ExtractVue
    \/ RecordFileResult
    \/ Finished

SpecRun == InitRun /\ [][NextRun]_vars

(***************************************************************************)
(* Properties                                                              *)
(***************************************************************************)
\* extract_exports_for_source has returned (generate_context_map has not
\* consumed the result yet)
Returned == pc = "returned"

Grammar(k) == IF k = "Tsx" THEN "tsx" ELSE "typescript"

\* the Parser of a new TsExportParser that reads a text of kind k
ParserOf(k) == IF k = "Tsx" THEN new.tsx_parser ELSE new.ts_parser

\* xs is ascending by (line, name)
SortedByLineName(xs) ==
    \A i, j \in 1..Len(xs) :
        i < j => \/ xs[i].line < xs[j].line
                 \/ /\ xs[i].line = xs[j].line
                    /\ ~StrLess(xs[j].name, xs[i].name)

\* C1: whenever extract_exports_for_source succeeds, the functions and the
\* types it returns are each sorted ascending by (line, name).
C1_SortedByLineName ==
    (Returned /\ result.ok) =>
        SortedByLineName(result.functions) /\ SortedByLineName(result.types)

\* A composite file whose two regions each contributed a function on the
\* same line, declared in descending name order (b before a).
C1_Witness ==
    /\ Returned /\ result.ok /\ kind = "Vue"
    /\ Len(parse_calls) = 2
    /\ Len(result.functions) = 2
    /\ result.functions[1].name = <<"a">> /\ result.functions[2].name = <<"b">>
    /\ result.functions[1].line = result.functions[2].line
    /\ find(source, 0, FormText[1]) # -1
    /\ find(source, 0, FormText[1]) < find(source, 0, FormText[2])

\* C2: a Plain or JsxFlavored source whose tree holds a syntax error gives
\* Err("syntax parse error") and no callable or type, and the file's result
\* record has an empty export list.
C2_SyntaxErrorNoPartial ==
    (pc # "call" /\ kind \in {"Ts", "Tsx"} /\ has_error(Parse(Grammar(kind), fn_kind, source))) =>
        /\ ~result.ok
        /\ result.err = "syntax parse error"
        /\ result.functions = <<>> /\ result.types = <<>>
        /\ pc = "recorded" =>
              /\ file_results[Len(file_results)].exports = <<>>
              /\ file_results[Len(file_results)].parse_error = << "syntax parse error" >>

\* An exported function precedes the unbalanced declaration, and the file's
\* record has been pushed.
C2_Witness ==
    /\ pc = "recorded" /\ kind = "Ts"
    /\ source = FormText[1] \o FormText[21]
    /\ ~result.ok

\* The index in `blocks` of the first region whose tree holds a syntax
\* error, or 0.
FirstFailing(bs, fk) ==
    LET bad == { i \in 1..Len(bs) :
                   has_error(Parse(Grammar(bs[i].kind), fk, bs[i].content)) }
    IN  IF bad = {} THEN 0 ELSE CHOOSE i \in bad : \A j \in bad : i <= j

RegionCalls(bs) ==
    [i \in 1..Len(bs) |-> ParseCall(Grammar(bs[i].kind), bs[i].content)]

\* C3: a Composite source is parsed region by region in region order; the
\* first failing region fails the whole file with its parse failure, nothing
\* collected before is returned and no later region is parsed.
C3_FirstFailingRegionAborts ==
    (Returned /\ kind = "Vue") =>
        LET f == FirstFailing(blocks, fn_kind)
        IN  IF f = 0
            THEN result.ok /\ parse_calls = RegionCalls(blocks)
            ELSE /\ ~result.ok
                 /\ result.err = "syntax parse error"
                 /\ result.functions = <<>> /\ result.types = <<>>
                 /\ parse_calls = SubSeq(RegionCalls(blocks), 1, f)

\* Two regions: the first fails, the second, which alone would give
\* exports, is never handed to the tree provider.
C3_Witness ==
    /\ Returned /\ kind = "Vue" /\ ~result.ok
    /\ Len(blocks) = 2
    /\ Len(parse_calls) = 1
    /\ parse_with(ParserOf(blocks[2].kind), fn_kind, blocks[2].content).functions # <<>>

\* The byte offsets at which region b can begin in the text: its content
\* stands there, before a closing tag and behind b.line_offset line breaks.
StartsOf(text, b) ==
    { a \in 0..(Len(text) - Len(b.content)) :
        /\ SubSeq(text, a + 1, a + Len(b.content)) = b.content
        /\ MatchAt(to_ascii_lowercase(text), ScriptClose, a + Len(b.content) + 1)
        /\ CountNewlines(text, a) = b.line_offset }

\* The text up to byte offset a with every character that is no line break
\* made a space
BlankUpTo(text, a) ==
    SubSeq([i \in 1..Len(text) |-> IF text[i] = NL THEN NL ELSE SP], 1, a)

\* Region b where it stands in the whole text: all before it blank, so
\* that a node's row in this text is its row in the whole text.
InWholeText(text, b) == BlankUpTo(text, FirstOf(StartsOf(text, b))) \o b.content

\* What the regions give, each read where it stands in the whole text: the
\* line of an entry is the row of its name node there, plus one.
RECURSIVE WholeTextExports(_, _, _)
WholeTextExports(text, bs, fk) ==
    IF bs = <<>> THEN EmptyExports
    ELSE [functions |->
              parse_with(ParserOf(Head(bs).kind), fk, InWholeText(text, Head(bs))).functions
                  \o WholeTextExports(text, Tail(bs), fk).functions,
          types |->
              parse_with(ParserOf(Head(bs).kind), fk, InWholeText(text, Head(bs))).types
                  \o WholeTextExports(text, Tail(bs), fk).types]

\* xs and ys hold the same entries, each as often
SameEntries(xs, ys) ==
    /\ Len(xs) = Len(ys)
    /\ \A i \in 1..Len(xs) :
          Cardinality({ j \in 1..Len(xs) : xs[j] = xs[i] })
              = Cardinality({ j \in 1..Len(ys) : ys[j] = xs[i] })

\* C4: every callable and type returned for a Composite source carries its
\* line in the region plus the line breaks of the composite text before the
\* region's content start, and that is the 1-based line its name has in the
\* whole composite text: what is returned is, entry for entry, what every
\* region gives when it is read where it stands in the whole text.
C4_LinesAreWholeFileLines ==
    (Returned /\ kind = "Vue" /\ result.ok) =>
        /\ \A i \in 1..Len(blocks) : StartsOf(source, blocks[i]) # {}
        /\ SameEntries(result.functions,
                       WholeTextExports(source, blocks, fn_kind).functions)
        /\ SameEntries(result.types, WholeTextExports(source, blocks, fn_kind).types)

\* Two regions with offsets 1 and more: a function of the second region is
\* reported on a line beyond the first region's lines.
C4_Witness ==
    /\ Returned /\ kind = "Vue" /\ result.ok
    /\ Len(blocks) = 2
    /\ blocks[1].line_offset = 1
    /\ blocks[2].line_offset > 2
    /\ \E i \in 1..Len(result.functions) :
          /\ result.functions[i].name = <<"a">>
          /\ result.functions[i].line > blocks[2].line_offset
    /\ \E i \in 1..Len(result.types) : result.types[i].line > 3

(***************************************************************************)
(* What the statement forms declare, read off their text: the parameter    *)
(* list and the return-type annotation written for each declared name.     *)
(***************************************************************************)
\* parameter-list text of the declaration of `name`, parenthesised
DeclaredParams(name) ==
    CASE name = <<"a">> -> <<"(","x",":"," ","T",")">>
      [] name = <<"m">> -> <<"(","\n","x","\n",")">>
      [] name = <<"s">> -> <<"(","x",")">>
      [] name = <<"i">> -> <<"(","x",")">>
      [] name = <<"f">> -> <<"(","x",":"," ","T",")">>
      [] name = <<"c">> -> <<"(","y",")">>
      [] OTHER -> <<"(",")">>

\* return-type annotation of the declaration of `name`, <<>> if it has none
DeclaredReturn(name) ==
    IF name \in {<<"a">>, <<"s">>, <<"f">>} THEN <<":"," ","R">>
    ELSE IF name = <<"p">> THEN <<":","\n","R">>
    ELSE <<>>

\* C5: every emitted signature is the name, then the parameter list, then,
\* exactly when the declaration has a return-type annotation, one space and
\* the annotation's text with its leading colon; for function declarations,
\* const-bound arrow functions and const-bound function expressions alike.
C5_SignatureFormat ==
    (Returned /\ result.ok) =>
        \A i \in 1..Len(result.functions) :
            LET f == result.functions[i]
            IN  f.signature =
                    f.name \o DeclaredParams(f.name)
                    \o (IF DeclaredReturn(f.name) = <<>> THEN <<>>
                        ELSE <<" ">> \o DeclaredReturn(f.name))

\* A function declaration and a const-bound arrow function, both with a
\* return type, were emitted from one file.
C5_Witness ==
    /\ Returned /\ result.ok /\ kind = "Ts"
    /\ Len(result.functions) = 2
    /\ result.functions[1].signature = <<"a","(","x",":"," ","T",")"," ",":"," ","R">>
    /\ result.functions[2].signature = <<"s","(","x",")"," ",":"," ","R">>

\* C6: a bare arrow parameter is wrapped in parentheses, a parenthesised
\* list is used as written, so "(" always follows the name directly.
C6_BareParameterParenthesised ==
    (Returned /\ result.ok) =>
        \A i \in 1..Len(result.functions) :
            LET f == result.functions[i]
            IN  /\ Len(f.signature) > Len(f.name)
                /\ f.signature[Len(f.name) + 1] = "("
                /\ f.name = <<"i">> => f.signature = <<"i","(","x",")">>
                /\ f.name = <<"c">> => f.signature = <<"c","(","y",")">>
                /\ f.name = <<"s">> => starts_with(f.signature, <<"s","(","x",")">>)

\* export const i = x => x;  was extracted, beside a parenthesised arrow.
C6_Witness ==
    /\ Returned /\ result.ok
    /\ source = FormText[5] \o FormText[4]
    /\ Len(result.functions) = 2
    /\ result.functions[1].signature = <<"i","(","x",")">>
    /\ result.functions[2].signature = <<"s","(","x",")"," ",":"," ","R">>

\* The text without the statements of the forms in `ks`: the text is read
\* statement by statement (the longest form that starts it), a statement of
\* a form in `ks` is dropped and any other is kept.
RECURSIVE Strip(_, _)
Strip(text, ks) ==
    IF text = <<>> THEN <<>>
    ELSE LET m == { k \in DOMAIN FormText : starts_with(text, FormText[k]) }
         IN  IF m = {} THEN << Head(text) >> \o Strip(Tail(text), ks)
             ELSE LET k == CHOOSE k \in m : \A k2 \in m : Len(FormText[k]) >= Len(FormText[k2])
                  IN  (IF k \in ks THEN <<>> ELSE FormText[k])
                          \o Strip(SubSeq(text, Len(FormText[k]) + 1, Len(text)), ks)

NameSet(xs) == { xs[i].name : i \in 1..Len(xs) }

\* The statements of forms `ks` add no callable and no type to the result
\* of a file that parses: dropping them from the text changes neither the
\* number nor the names of what is extracted.
ContributeNothing(ks) ==
    (Returned /\ result.ok /\ kind \in {"Ts", "Tsx"}) =>
        LET rest == parse_with(ParserOf(kind), fn_kind, Strip(source, ks))
        IN  /\ rest.ok
            /\ Len(result.functions) = Len(rest.functions)
            /\ Len(result.types) = Len(rest.types)
            /\ NameSet(result.functions) = NameSet(rest.functions)
            /\ NameSet(result.types) = NameSet(rest.types)

ReExportForms == {16, 17, 18, 19}
NotExportedForms == {20}
OtherShapeForms == {13, 14, 15}

\* C7: re-export clauses, namespace exports and declarations outside an
\* export statement contribute no callable and no type.
C7_ReExportsContributeNothing == ContributeNothing(ReExportForms \cup NotExportedForms)

\* A file holding a non-exported function and a re-export, nothing emitted.
C7_Witness ==
    /\ Returned /\ result.ok
    /\ source = FormText[20] \o FormText[17]
    /\ result.functions = <<>> /\ result.types = <<>>

\* C8 (as claimed): an exported class, enum or default export adds no
\* callable and no type; export default function d(){} adds nothing.
C8_OtherShapesSkipped == ContributeNothing(OtherShapeForms)

\* Number of entries of xs named `name`
CountNamed(xs, name) == Cardinality({ i \in 1..Len(xs) : xs[i].name = name })

\* Number of statements of form k in a text built from the forms
RECURSIVE CountForm(_, _)
CountForm(text, k) ==
    IF Len(text) < Len(FormText[k]) THEN 0
    ELSE IF starts_with(text, FormText[k])
         THEN 1 + CountForm(SubSeq(text, Len(FormText[k]) + 1, Len(text)), k)
         ELSE CountForm(Tail(text), k)

\* C9 (as claimed): of an exported lexical declaration, each declarator
\* with an identifier name and an arrow-function or function-expression
\* initializer emits exactly one callable; pattern names, missing or other
\* initializers, and let / var declarations emit nothing.
C9_OneCallablePerFunctionDeclarator ==
    (Returned /\ result.ok /\ kind \in {"Ts", "Tsx"}) =>
        /\ CountNamed(result.functions, <<"s">>) = CountForm(source, 4)
        /\ CountNamed(result.functions, <<"i">>) = CountForm(source, 5)
        /\ CountNamed(result.functions, <<"f">>) = CountForm(source, 6)
        /\ CountNamed(result.functions, <<"h">>) = CountForm(source, 7)
        /\ CountNamed(result.functions, <<"c">>) = CountForm(source, 7)
        /\ \A n \in {"e", "g", "l", "v", "n"} : CountNamed(result.functions, << n >>) = 0

\* The blocks bs with `n` added to every line offset
ShiftLines(bs, n) == [i \in 1..Len(bs) |-> [bs[i] EXCEPT !.line_offset = @ + n]]

\* C10 (as claimed): when the first opening script tag of a composite text
\* has src= in its attribute text, it yields no region and the regions
\* returned are exactly those that open after that tag: the ones the locator
\* finds in the text behind the tag's ">", at their whole-file line offsets.
C10_RegionsAfterSrcTagFound ==
    (Returned /\ kind = "Vue") =>
        LET lower == to_ascii_lowercase(source)
            tag_start == find(lower, 0, ScriptOpen)
            tag_end_rel == find(lower, tag_start, <<">">>)
            tag_end == tag_start + tag_end_rel
            attrs == SubSeq(lower, tag_start + Len(ScriptOpen) + 1, tag_end)
        IN  (tag_start # -1 /\ tag_end_rel # -1 /\ contains(attrs, SrcAttr)) =>
                blocks = ShiftLines(
                             extract_vue_scripts(SubSeq(source, tag_end + 2, Len(source))),
                             CountNewlines(source, tag_end + 1))

(***************************************************************************)
(* The Script Region Locator step by step: extract_vue_scripts on texts    *)
(* made of script elements with varied opening and closing tags, one       *)
(* action per iteration of its loop.                                       *)
(***************************************************************************)
MaxElems == 2      \* script elements in a locator input

\* opening tags; the last has no ">"
TagForms ==
    << <<"<","s","c","r","i","p","t",">">>,
       <<"<","s","c","r","i","p","t"," ","l","a","n","g","=","\"","t","s","x","\"",">">>,
       <<"<","S","C","R","I","P","T"," ","L","A","N","G","=","'","T","S","X","'",">">>,
       <<"<","s","c","r","i","p","t"," ","l","a","n","g","=","t","s","x",">">>,
       <<"<","s","c","r","i","p","t"," ","l","a","n","g","=","t","s","x","y",">">>,
       <<"<","s","c","r","i","p","t"," ","x","l","a","n","g","=","\"","t","s","x","\"",">">>,
       <<"<","s","c","r","i","p","t"," ","l","a","n","g","=","\"","t","s","\"",">">>,
       <<"<","s","c","r","i","p","t"," ","s","r","c","=","\"","x","\"",">">>,
       <<"<","s","c","r","i","p","t"," ">> >>

\* closing tags; the last is a missing one
CloseForms ==
    << <<"<","/","s","c","r","i","p","t",">">>,
       <<"<","/","S","C","R","I","P","T",">","\n">>,
       <<>> >>

ElemBody == <<"b",";","\n">>

ElemChoices == [open : 1..Len(TagForms), close : 1..Len(CloseForms)]

ElemText(el) == TagForms[el.open] \o ElemBody \o CloseForms[el.close]

RECURSIVE ElemsText(_)
ElemsText(els) == IF els = <<>> THEN <<>> ELSE ElemText(Head(els)) \o ElemsText(Tail(els))

LocatorTexts == { ElemsText(els) : els \in UNION { [1..n -> ElemChoices] : n \in 0..MaxElems } }

\* extract_vue_scripts entered: lower, out and search_from initialised.  The
\* grammar's node kinds are not read by the locator.
InitLocator ==
    /\ kind = "Vue"
    /\ source \in LocatorTexts
    /\ fn_kind = "function_expression"
    /\ parser = new
    /\ pc = "scan"
    /\ result = Err("")
    /\ parse_calls = <<>>
    /\ blocks = <<>>
    /\ search_pos = 0
    /\ file_results = <<>>
    /\ summary = EmptySummary
    /\ files = <<>>
    /\ relative = PathOfKind(kind)
    /\ Idle

\* the loop state `st` becomes the state of the call; `out` is returned
\* when the loop stops
SetScan(st) ==
    /\ blocks' = st.out
    /\ search_pos' = st.search_from
    /\ pc' = IF st.stop THEN "located" ELSE "scan"
    /\ UNCHANGED <<source, kind, fn_kind, parser, result, parse_calls, file_results, summary,
                   run_vars, walk_vars, render_vars>>

\* one iteration of the while loop of extract_vue_scripts
ScanStep ==
    /\ pc = "scan"
    /\ \E lower \in {to_ascii_lowercase(source)} :
          \E st \in {ScanIteration(source, lower, search_pos, blocks)} : SetScan(st)

NextLocator == ScanStep

SpecLocator == InitLocator /\ [][NextLocator]_vars

\* The locator has returned `blocks`.
Located == pc = "located"

\* The opening tag the iteration from byte offset `from` looks at: the first
\* "<script" (any case) at or after `from`, up to the next ">".  [found,
\* closed, attrs]: is there such a tag, has it a ">", and the text between
\* the tag name and the ">", as written.
TagAt(text, from) ==
    LET lower == to_ascii_lowercase(text)
        rel == find(lower, from, ScriptOpen)
        gt == find(lower, from + rel, <<">">>)
    IN  [found |-> rel # -1,
         closed |-> rel # -1 /\ gt # -1,
         attrs |-> IF rel # -1 /\ gt # -1
                   THEN SubSeq(text, from + rel + Len(ScriptOpen) + 1, from + rel + gt)
                   ELSE <<>>,
         tag_end |-> from + rel + gt]

\* The white-space separated words of an attribute text
IsWordAt(t, i, j) ==
    /\ \A k \in i..j : ~IsWhitespace(t[k])
    /\ (i = 1 \/ IsWhitespace(t[i - 1]))
    /\ (j = Len(t) \/ IsWhitespace(t[j + 1]))

WordsOf(t) ==
    { SubSeq(t, w[1], w[2]) : w \in { w \in (1..Len(t)) \X (1..Len(t)) :
                                        w[1] <= w[2] /\ IsWordAt(t, w[1], w[2]) } }

\* an attribute lang whose value is tsx, in double quotes, single quotes or
\* bare, in any case
HasLangTsx(attrs) ==
    \E w \in WordsOf(attrs) :
        to_ascii_lowercase(w) \in {LangTsxDouble, LangTsxSingle, LangTsxBare}

\* the iteration appended a region
Appended == pc = "scan" /\ Len(blocks') = Len(blocks) + 1

\* C11 (as claimed): a region is tagged JsxFlavored exactly when its opening
\* tag has a lang attribute whose value equals tsx (any case; double-quoted,
\* single-quoted or bare); a value that only starts with tsx, or another
\* attribute whose name ends in lang, leaves it Plain.
C11_JsxIffLangEqualsTsx ==
    [][Appended =>
          (blocks'[Len(blocks')].kind = "Tsx" <=> HasLangTsx(TagAt(source, search_pos).attrs))]_vars

\* The tag the iteration from `from` looks at is truncated: it has no ">",
\* or no closing script tag (any case) follows its ">".
Truncated(text, from) ==
    /\ TagAt(text, from).found
    /\ \/ ~TagAt(text, from).closed
       \/ find(to_ascii_lowercase(text), TagAt(text, from).tag_end + 1, ScriptClose) = -1

\* C12: an iteration that meets an opening script tag with no ">" or with no
\* closing script tag after it ends the scan and returns exactly the regions
\* collected before it; and when the locator returns no region, the
\* extraction of the composite text succeeds with nothing in it.
C12_TruncatedTagStopsSilently ==
    /\ [][(pc = "scan" /\ Truncated(source, search_pos))
             => (pc' = "located" /\ blocks' = blocks)]_vars
    /\ [](Located /\ blocks = <<>> => VueRun(parser, fn_kind, blocks).res = Ok(EmptyExports))

\* returned with one region after meeting a truncated tag
C12_Witness ==
    /\ Located
    /\ Len(blocks) = 1
    /\ Truncated(source, search_pos)

\* The loop is a plain sequential loop: an iteration that can run does run.
SpecLocatorFair == SpecLocator /\ WF_vars(ScanStep)

\* a closing script tag (any case) ends at byte offset `pos` of `text`
ClosingTagEndsAt(text, pos) ==
    /\ pos >= Len(ScriptClose)
    /\ SubSeq(to_ascii_lowercase(text), pos - Len(ScriptClose) + 1, pos) = ScriptClose

\* `b` is the text between byte offset `a` and the closing tag ending at `pos`
RegionBetween(text, b, a, pos) ==
    /\ b.content = SubSeq(text, a + 1, pos - Len(ScriptClose))
    /\ b.line_offset = CountNewlines(text, a)

\* the regions `bs` lie in `text` from offset `from` on, in this order, each
\* followed by a closing tag before the next begins
RECURSIVE InSourceOrder(_, _, _)
InSourceOrder(text, bs, from) ==
    \/ bs = <<>>
    \/ \E a \in from..Len(text) :
          /\ SubSeq(text, a + 1, a + Len(Head(bs).content)) = Head(bs).content
          /\ ClosingTagEndsAt(text, a + Len(Head(bs).content) + Len(ScriptClose))
          /\ InSourceOrder(text, Tail(bs), a + Len(Head(bs).content) + Len(ScriptClose))

\* an iteration stops the scan, or moves the search position strictly
\* forward to just past a closing tag, any region it adds lying between
\* the old position and that closing tag
ScanProgress ==
    \/ pc' = "located"
    \/ /\ search_pos' > search_pos
       /\ ClosingTagEndsAt(source, search_pos')
       /\ Appended =>
             \E a \in search_pos..search_pos' :
                 RegionBetween(source, blocks'[Len(blocks')], a, search_pos')

\* C20: extract_vue_scripts terminates on every text; every iteration either
\* stops or moves the search position strictly forward past a closing script
\* tag; the regions are in source order without overlap, and no region's
\* content contains a closing script tag in any case.
C20_ScanTerminatesInOrder ==
    /\ [][pc = "scan" => ScanProgress]_vars
    /\ [](/\ InSourceOrder(source, blocks, 0)
          /\ \A i \in 1..Len(blocks) :
                ~contains(to_ascii_lowercase(blocks[i].content), ScriptClose))
    /\ <>Located

\* returned with two regions, the closing tag of the first in upper case
C20_Witness ==
    /\ Located
    /\ Len(blocks) = 2
    /\ contains(source, CloseForms[2])

(***************************************************************************)
(* Signatures and line breaks                                              *)
(***************************************************************************)
HasNewline(t) == \E i \in 1..Len(t) : t[i] = NL

\* C13 (as claimed): no emitted signature contains a newline character, also
\* when the declaration's parameter list spans several source lines.
C13_SignatureSingleLine ==
    (Returned /\ result.ok) =>
        \A i \in 1..Len(result.functions) : ~HasNewline(result.functions[i].signature)

\* C13 (amended): the engine emits the parameter list and the return type as
\* written, so a signature contains a newline exactly when the declaration's
\* parameter list or return-type annotation contains one in the source.
C13_SignatureKeepsLineBreaks ==
    (Returned /\ result.ok) =>
        \A i \in 1..Len(result.functions) :
            HasNewline(result.functions[i].signature)
                <=> \/ HasNewline(DeclaredParams(result.functions[i].name))
                    \/ HasNewline(DeclaredReturn(result.functions[i].name))

\* the function whose parameter list spans three lines was emitted, next to
\* the one whose return type stands on a line of its own
C13_Witness ==
    /\ Returned /\ result.ok
    /\ \E i, j \in 1..Len(result.functions) :
          /\ result.functions[i].signature = <<"m","(","\n","x","\n",")">>
          /\ result.functions[j].signature = <<"p","(",")"," ",":","\n","R">>

(***************************************************************************)
(* Runs over several files                                                 *)
(***************************************************************************)
\* the file of the run with this path
FileAt(path) ==
    RunFiles[CHOOSE i \in 1..Len(RunFiles) : normalize_path(RunFiles[i].path) = path]

\* What a TsExportParser that has parsed nothing yet gives for this file's
\* text and kind: the exports of its record.
AloneExports(fk, f) ==
    IF f.read.ok /\ extract_exports_for_source(new, fk, f.read.text, f.kind).res.ok
    THEN FunctionExports(
             extract_exports_for_source(new, fk, f.read.text, f.kind).res.functions,
             normalize_path(f.path))
    ELSE <<>>

\* the exports without the path of their file
WithoutPath(xs) ==
    [i \in 1..Len(xs) |-> [name |-> xs[i].name, signature |-> xs[i].signature,
                           line |-> xs[i].line]]

SameInput(f, g) == f.read = g.read /\ f.kind = g.kind


\* the error message a file of the run is recorded with, <<>> for none
ExpectedError(path) ==
    CASE path \in {<<"e",".","t","s">>, <<"j",".","t","s">>} -> << "syntax parse error" >>
      [] path = <<"u",".","t","s">> -> << InvalidUtf8 >>
      [] OTHER -> <<>>

FailedRecords(frs) == { i \in 1..Len(frs) : ExpectedError(frs[i].file_path) # <<>> }

RECURSIVE ExportCount(_)
ExportCount(frs) == IF frs = <<>> THEN 0 ELSE Len(Head(frs).exports) + ExportCount(Tail(frs))

\* the step pushed the record of a file that cannot be read or parsed
FailurePushed ==
    /\ Len(file_results') = Len(file_results) + 1
    /\ ExpectedError(file_results'[Len(file_results')].file_path) # <<>>

\* C15: a file whose read or extraction fails gets exactly one record, with
\* parse_error set ("syntax parse error" for a tree with errors, the read
\* error's message otherwise) and no exports; it adds one to parse_failed
\* and nothing to parsed or to the export counter; the run ends with one
\* record for every file scanned.
C15_FailureIsOneErrorRecord ==
    /\ [][FailurePushed =>
             /\ summary'.parse_failed = summary.parse_failed + 1
             /\ summary'.parsed = summary.parsed
             /\ summary'.exported_functions = summary.exported_functions
             /\ file_results'[Len(file_results')].exports = <<>>
             /\ file_results'[Len(file_results')].parse_error
                    = ExpectedError(file_results'[Len(file_results')].file_path)]_vars
    /\ [](pc = "done" =>
             /\ Len(file_results) = summary.scanned
             /\ summary.parse_failed = Cardinality(FailedRecords(file_results))
             /\ summary.parsed = Len(file_results) - Cardinality(FailedRecords(file_results))
             /\ summary.exported_functions = ExportCount(file_results))

\* a run over a file that does not parse and one that cannot be read
C15_Witness ==
    /\ pc = "done"
    /\ Len(file_results) = 2
    /\ file_results[1].parse_error = << "syntax parse error" >>
    /\ file_results[2].parse_error = << InvalidUtf8 >>
    /\ summary = [scanned |-> 2, parsed |-> 0, parse_failed |-> 2, exported_functions |-> 0]

(***************************************************************************)
(* The file walker (walker.rs).  A file name is a sequence of characters,  *)
(* a path the sequence of names from the root down; `entries` holds the    *)
(* root directory's own name and the paths of the regular files below it   *)
(* (the directories are the proper prefixes of those paths).               *)
(*   pc: "walk" -> "files"                                                 *)
(***************************************************************************)
MaxPaths == 2      \* regular files in the tree

\* fn ignored_dirs
ignored_dirs ==
    { <<".","g","i","t">>, <<"n","o","d","e","_","m","o","d","u","l","e","s">>,
      <<"d","i","s","t">>, <<"b","u","i","l","d">>, <<"t","a","r","g","e","t">> }

\* (variant) the dot-prefix rule left out
should_descend_unless_ignored(e) == ~e.is_dir \/ e.name \notin ignored_dirs

\* fn should_descend, on a DirEntry [name, is_dir, depth]
should_descend(e) ==
    IF ~e.is_dir THEN TRUE
    ELSE IF e.name \in ignored_dirs THEN FALSE
    ELSE IF e.depth > 0 /\ starts_with(e.name, <<".">>) THEN FALSE
    ELSE TRUE

\* str::ends_with
ends_with(s, x) == Len(s) >= Len(x) /\ SubSeq(s, Len(s) - Len(x) + 1, Len(s)) = x

\* Path::extension of a file name: the text after the last "." unless that
\* "." is the first character of the name or there is none; an Option.
extension(name) ==
    LET dots == { i \in 1..Len(name) : name[i] = "." }
        last == CHOOSE i \in dots : \A j \in dots : j <= i
    IN  IF dots = {} THEN <<>>
        ELSE IF last = 1 THEN <<>>
        ELSE << SubSeq(name, last + 1, Len(name)) >>

ExtTs == <<"t","s">>
ExtTsx == <<"t","s","x">>
ExtVue == <<"v","u","e">>
DotDTs == <<".","d",".","t","s">>

\* Path::file_name
file_name(path) == path[Len(path)]

\* (variant) declaration files taken as sources
classify_by_extension_alone(path) ==
    IF extension(file_name(path)) = << ExtTs >> THEN << "Ts" >>
    ELSE IF extension(file_name(path)) = << ExtTsx >> THEN << "Tsx" >>
    ELSE IF extension(file_name(path)) = << ExtVue >> THEN << "Vue" >>
    ELSE <<>>

\* fn classify_source_file: Option<SourceKind>
classify_source_file(path) ==
    IF extension(file_name(path)) = <<>> THEN <<>>
    ELSE IF extension(file_name(path)) = << ExtTs >>
         THEN IF ends_with(file_name(path), DotDTs) THEN <<>> ELSE << "Ts" >>
    ELSE IF extension(file_name(path)) = << ExtTsx >> THEN << "Tsx" >>
    ELSE IF extension(file_name(path)) = << ExtVue >> THEN << "Vue" >>
    ELSE <<>>

\* The DirEntry WalkDir makes for the first k names of `path` (k = 0: the
\* root itself); the last name of a file's path is the file.
DirEntryAt(root, path, k) ==
    [name |-> IF k = 0 THEN root ELSE path[k], is_dir |-> k < Len(path), depth |-> k]

\* filter_entry(should_descend): an entry is yielded when the predicate
\* holds of it and of every directory above it, the root included
Yielded(root, path) == \A k \in 0..Len(path) : should_descend(DirEntryAt(root, path, k))

\* the SourceFile values the iterator chain collects, in no order yet
SourceFiles(tree) ==
    { [path |-> p, kind |-> classify_source_file(p)[1]] :
        p \in { q \in tree.files : Yielded(tree.root, q) /\ classify_source_file(q) # <<>> } }

\* Path::cmp is Less: names compared one after another, each as bytes
RECURSIVE PathBefore(_, _)
PathBefore(a, b) ==
    IF b = <<>> THEN FALSE
    ELSE IF a = <<>> THEN TRUE
    ELSE IF Head(a) # Head(b) THEN StrLess(Head(a), Head(b))
    ELSE PathBefore(Tail(a), Tail(b))

RECURSIVE InsertFile(_, _)
InsertFile(sorted, x) ==
    IF sorted = <<>> THEN << x >>
    ELSE IF PathBefore(x.path, sorted[Len(sorted)].path)
         THEN Append(InsertFile(SubSeq(sorted, 1, Len(sorted) - 1), x), sorted[Len(sorted)])
         ELSE Append(sorted, x)

RECURSIVE InsertFiles(_, _)
InsertFiles(acc, xs) ==
    IF xs = <<>> THEN acc ELSE InsertFiles(InsertFile(acc, Head(xs)), Tail(xs))

\* files.sort_by(|a, b| a.path.cmp(&b.path))
sort_by_path(found) == InsertFiles(<<>>, found)

\* the orders in which a directory walk can meet the members of S
Orders(S) ==
    { q \in [1..Cardinality(S) -> S] : \A i, j \in 1..Cardinality(S) : i # j => q[i] # q[j] }

\* directories of the trees: two the walk enters, six it must not
OpenDirs == { <<>>, <<<<"s","r","c">>>> }
ClosedDirs ==
    { << <<"d","i","s","t">> >>,
      << <<"s","r","c">>, <<"b","u","i","l","d">> >>,
      << <<".","g","i","t">>, <<"h","o","o","k","s">> >>,
      << <<"s","r","c">>, <<".","c","f","g">> >>,
      << <<"n","o","d","e","_","m","o","d","u","l","e","s">>, <<"p","k","g">> >>,
      << <<"s","r","c">>, <<"n","e","s","t","e","d">>, <<"t","a","r","g","e","t">> >> }

FileNames ==
    { <<"a",".","t","s">>, <<"t",".","d",".","t","s">>, <<"c",".","t","s","x">>,
      <<"v",".","v","u","e">>, <<"e",".","j","s">>, <<".","t","s">>,
      <<"i",".","p","r","o","p","s",".","t","s">>,
      <<"k",".","p","r","o","p","s",".","t","s","x">> }

FilePaths ==
    { Append(d, n) : d \in OpenDirs, n \in FileNames }
    \cup { Append(d, n) : d \in ClosedDirs, n \in {<<"a",".","t","s">>, <<"c",".","t","s","x">>} }

RootNames == { <<"r">>, <<"d","i","s","t">>, <<".","w">> }

\* the sets of at most MaxPaths file paths
PathSets == UNION { { { q[i] : i \in 1..n } : q \in [1..n -> FilePaths] } : n \in 0..MaxPaths }

Trees == [root : RootNames, files : PathSets]

\* generate_context_map has found root to be a directory
InitWalk ==
    /\ entries \in Trees
    /\ pc = "walk"
    /\ files = <<>>
    /\ summary = EmptySummary
    /\ file_results = <<>>
    /\ fn_kind = "function_expression"
    /\ parser = new
    /\ source = <<>>
    /\ kind = "Ts"
    /\ relative = <<>>
    /\ result = Err("")
    /\ parse_calls = <<>>
    /\ blocks = <<>>
    /\ search_pos = 0
    /\ profile = "Balanced"
    /\ export = NoExport
    /\ entry = <<>>

\* collect_source_files, and the summary generate_context_map starts
\* with; WalkDir yields a directory's members in no particular order
CollectSourceFiles ==
    /\ pc = "walk"
    /\ \E found \in Orders(SourceFiles(entries)) :
          /\ files' = sort_by_path(found)
          /\ summary' = Scanned(Len(found))
    /\ pc' = "files"
    /\ UNCHANGED <<source, kind, fn_kind, parser, result, parse_calls, blocks, search_pos,
                   file_results, relative, walk_vars, render_vars>>

NextWalk == CollectSourceFiles

SpecWalk == InitWalk /\ [][NextWalk]_vars

\* collect_source_files has returned `files`
Collected == pc = "files"

\* `name` is a non-empty stem, a dot and `ext`
HasExtension(name, ext) == ends_with(name, <<".">> \o ext) /\ Len(name) > Len(ext) + 1

\* the kind a file name stands for, as an Option
KindOfName(name) ==
    IF HasExtension(name, ExtTs) /\ ~ends_with(name, DotDTs) THEN << "Ts" >>
    ELSE IF HasExtension(name, ExtTsx) THEN << "Tsx" >>
    ELSE IF HasExtension(name, ExtVue) THEN << "Vue" >>
    ELSE <<>>

\* C16: a path is classified from its extension alone: .ts but not .d.ts is
\* Plain ("Ts"), .tsx is JsxFlavored ("Tsx"), .vue is Composite ("Vue"); a
\* file with another extension, with none, or ending .d.ts is no candidate
\* and is never among the files handed on.
C16_ClassifiedByExtension ==
    Collected =>
        /\ \A p \in entries.files : classify_source_file(p) = KindOfName(file_name(p))
        /\ \A i \in 1..Len(files) : << files[i].kind >> = KindOfName(file_name(files[i].path))

\* src holds a.ts and t.d.ts; only a.ts was returned, as Ts
C16_Witness ==
    /\ Collected
    /\ entries.files = { << <<"s","r","c">>, <<"a",".","t","s">> >>,
                         << <<"s","r","c">>, <<"t",".","d",".","t","s">> >> }
    /\ files = << [path |-> << <<"s","r","c">>, <<"a",".","t","s">> >>, kind |-> "Ts"] >>

DotPropsTs == <<".","p","r","o","p","s",".","t","s">>

\* C17 (as claimed): a file whose name ends in .props.ts is not scanned, one
\* ending in .props.tsx is: scanned counts the candidates that do not end in
\* .props.ts, and no returned file ends in .props.ts.
C17_PropsTsNotScanned ==
    Collected =>
        /\ \A i \in 1..Len(files) : ~ends_with(file_name(files[i].path), DotPropsTs)
        /\ summary.scanned =
              Cardinality({ p \in entries.files :
                              /\ Yielded(entries.root, p)
                              /\ KindOfName(file_name(p)) # <<>>
                              /\ ~ends_with(file_name(p), DotPropsTs) })

\* a directory above the file, below the root, is one the walk must not enter
UnderClosedDir(path) ==
    \E k \in 1..(Len(path) - 1) : path[k] \in ignored_dirs \/ Head(path[k]) = "."

\* C18: collect_source_files returns candidate source files of the tree in
\* strictly ascending path order, none of them under a directory named .git,
\* node_modules, dist, build or target or under a dot-prefixed directory, at
\* any depth below the root; and when the root directory is entered, every
\* candidate outside such directories is returned.
C18_SortedAndOutsideIgnoredDirs ==
    Collected =>
        /\ \A i, j \in 1..Len(files) : i < j => PathBefore(files[i].path, files[j].path)
        /\ \A i \in 1..Len(files) :
              /\ files[i].path \in entries.files
              /\ KindOfName(file_name(files[i].path)) # <<>>
              /\ ~UnderClosedDir(files[i].path)
        /\ entries.root \notin ignored_dirs =>
              \A p \in entries.files :
                  (KindOfName(file_name(p)) # <<>> /\ ~UnderClosedDir(p))
                      => \E i \in 1..Len(files) : files[i].path = p

\* src/c.tsx was returned, src/.cfg/a.ts was not
C18_Witness ==
    /\ Collected
    /\ entries.files = { << <<"s","r","c">>, <<"c",".","t","s","x">> >>,
                         << <<"s","r","c">>, <<".","c","f","g">>, <<"a",".","t","s">> >> }
    /\ Len(files) = 1
    /\ files[1].path = << <<"s","r","c">>, <<"c",".","t","s","x">> >>

\* C21 (as claimed): the ignore rules bind only directories below the root.
\* Whatever the root directory's own name is (dist, build, target,
\* node_modules or a dot-prefixed name included), the walk enters it, so
\* every candidate file directly under the root is returned, and so is every
\* candidate whose directories below the root are none of them ignored.
C21_RootAlwaysDescended ==
    Collected =>
        \A p \in entries.files :
            (classify_source_file(p) # <<>> /\ ~UnderClosedDir(p))
                => \E i \in 1..Len(files) : files[i].path = p

(***************************************************************************)
(* The renderer's function entries (markdown.rs format_function_entry).    *)
(*   pc: "render" -> "rendered"                                            *)
(***************************************************************************)
MaxParams == 2     \* parameters of a rendered function

\* str::split_whitespace: the maximal runs of non-white-space characters
RECURSIVE SplitFrom(_, _, _)
SplitFrom(t, i, word) ==
    IF i > Len(t) THEN (IF word = <<>> THEN <<>> ELSE << word >>)
    ELSE IF IsWhitespace(t[i])
         THEN (IF word = <<>> THEN <<>> ELSE << word >>) \o SplitFrom(t, i + 1, <<>>)
         ELSE SplitFrom(t, i + 1, Append(word, t[i]))

split_whitespace(t) == SplitFrom(t, 1, <<>>)

\* [&str]::join(" ")
RECURSIVE join(_)
join(words) ==
    IF words = <<>> THEN <<>>
    ELSE IF Len(words) = 1 THEN words[1]
    ELSE words[1] \o << SP >> \o join(Tail(words))

\* fn normalize_whitespace
normalize_whitespace(input) == join(split_whitespace(input))

\* str::strip_prefix, an Option
strip_prefix(t, prefix) ==
    IF starts_with(t, prefix) THEN << SubSeq(t, Len(prefix) + 1, Len(t)) >> ELSE <<>>

\* usize::saturating_sub(1)
saturating_dec(n) == IF n = 0 THEN 0 ELSE n - 1

\* The for loop of extract_parameters over rest.char_indices(), at index i
\* with `depth`: Some(rest[..=idx]) at the ")" that brings depth to 0
RECURSIVE ScanParens(_, _, _)
ScanParens(rest, i, depth) ==
    IF i > Len(rest) THEN <<>>
    ELSE IF rest[i] = "(" THEN ScanParens(rest, i + 1, depth + 1)
    ELSE IF rest[i] = ")"
         THEN IF saturating_dec(depth) = 0 THEN << SubSeq(rest, 1, i) >>
              ELSE ScanParens(rest, i + 1, saturating_dec(depth))
    ELSE ScanParens(rest, i + 1, depth)

ParamsOfRest(rest) ==
    IF rest = <<>> THEN <<>>
    ELSE IF rest[1] # "(" THEN <<>>
    ELSE ScanParens(rest, 1, 0)

\* fn extract_parameters, an Option
extract_parameters(signature, name) ==
    IF strip_prefix(signature, name) = <<>> THEN <<>>
    ELSE ParamsOfRest(trim_start(strip_prefix(signature, name)[1]))

Digits == <<"0","1","2","3","4","5","6","7","8","9">>

\* Display of a usize
RECURSIVE Decimal(_)
Decimal(n) ==
    IF n < 10 THEN << Digits[n + 1] >> ELSE Decimal(n \div 10) \o << Digits[(n % 10) + 1] >>

LineMarker == <<" ","@","L">>

BalancedEntry(ex, params) ==
    IF params = <<>> THEN ex.name ELSE ex.name \o normalize_whitespace(params[1])

\* fn format_function_entry
format_function_entry(ex, prof) ==
    CASE prof = "Compact" -> ex.name
      [] prof = "Balanced" -> BalancedEntry(ex, extract_parameters(ex.signature, ex.name))
      [] prof = "Detailed" -> normalize_whitespace(ex.signature) \o LineMarker \o Decimal(ex.line)

Profiles == {"Compact", "Balanced", "Detailed"}

\* Parameters as they are written in a declaration: a typed one, one of a
\* function type, one with a string default holding a ")".
ParamTexts ==
    << <<"x",":"," ","T">>,
       <<"c",":"," ","(",")"," ","=",">"," ","V">>,
       <<"s"," ","="," ","\"",")","\"">> >>

RECURSIVE JoinParams(_, _)
JoinParams(ps, sep) ==
    IF ps = <<>> THEN <<>>
    ELSE IF Len(ps) = 1 THEN ParamTexts[ps[1]]
    ELSE ParamTexts[ps[1]] \o sep \o JoinParams(Tail(ps), sep)

\* a parameter list on one line, or one parameter a line with a trailing comma
ParamList(ps, layout) ==
    IF ps = <<>> THEN <<"(",")">>
    ELSE IF layout = "line" THEN <<"(">> \o JoinParams(ps, <<","," ">>) \o <<")">>
    ELSE <<"(","\n"," "," ">> \o JoinParams(ps, <<",","\n"," "," ">>) \o <<",","\n",")">>

ParamLists ==
    { ParamList(ps, layout) :
        ps \in UNION { [1..n -> 1..Len(ParamTexts)] : n \in 0..MaxParams },
        layout \in {"line", "lines"} }

ReturnTexts == { <<>>, <<":"," ","R">>, <<":"," ","(","a",")"," ","=",">"," ","R">> }

\* the FunctionExport values generate_context_map can hand to the renderer
RenderExports ==
    { [name |-> <<"f">>, signature |-> Signature(<<"f">>, ps, rt),
       file_path |-> <<"f",".","t","s">>, line |-> ln] :
        ps \in ParamLists, rt \in ReturnTexts, ln \in {2, 12} }

InitRender ==
    /\ profile \in Profiles
    /\ export \in RenderExports
    /\ entry = <<>>
    /\ pc = "render"
    /\ entries = {}
    /\ files = <<>>
    /\ summary = EmptySummary
    /\ file_results = <<>>
    /\ fn_kind = "function_expression"
    /\ parser = new
    /\ source = <<>>
    /\ kind = "Ts"
    /\ relative = <<>>
    /\ result = Err("")
    /\ parse_calls = <<>>
    /\ blocks = <<>>
    /\ search_pos = 0

\* lines.push(format!("- `{}`", format_function_entry(export, config.profile)))
FormatEntry ==
    /\ pc = "render"
    /\ entry' = format_function_entry(export, profile)
    /\ pc' = "rendered"
    /\ UNCHANGED <<source, kind, fn_kind, parser, result, parse_calls, blocks, search_pos,
                   file_results, summary, run_vars, walk_vars, profile, export>>

NextRender == FormatEntry

SpecRender == InitRender /\ [][NextRender]_vars

Rendered == pc = "rendered"

\* runs of white space made one space each
RECURSIVE Collapsed(_)
Collapsed(t) ==
    IF t = <<>> THEN <<>>
    ELSE IF IsWhitespace(Head(t))
         THEN IF Len(t) > 1 /\ IsWhitespace(t[2]) THEN Collapsed(Tail(t))
              ELSE << SP >> \o Collapsed(Tail(t))
         ELSE << Head(t) >> \o Collapsed(Tail(t))

\* C19 (as claimed): the Balanced entry of a function is its name followed
\* by its parameter list with runs of white space collapsed, with nothing of
\* the return type and no line marker; the Compact entry is the name alone;
\* the Detailed entry is the collapsed signature followed by " @L<line>".
C19_EntryPerProfile ==
    Rendered =>
        \A ps \in ParamLists, rt \in ReturnTexts :
            export.signature = Signature(export.name, ps, rt) =>
                /\ profile = "Compact" => entry = export.name
                /\ profile = "Balanced" => entry = export.name \o Collapsed(ps)
                /\ profile = "Detailed" =>
                      entry = Collapsed(export.signature) \o LineMarker \o Decimal(export.line)

====
